---------------------------- MODULE Spec2Model ----------------------------
(***************************************************************************)
(* A model of the dssmcp tool handlers.  The platform (DSS) is remote: a   *)
(* project is seen through its dataset catalog, and a handler talks to it  *)
(* through a client handle built from the request's authorization header.  *)
(* This part covers recipe creation (tools/dss/recipe.py) and the dataset   *)
(* tools that change the catalog it reads (tools/dss/dataset.py).           *)
(***************************************************************************)
EXTENDS Integers, Sequences, FiniteSets, TLC

(***************************************************************************)
(* Bounds of the model.                                                    *)
(***************************************************************************)
MaxInputs == 2
MaxOutputs == 2

\* Dataset names: requests name inputs among InputNames and outputs among
\* OutputNames; the project's catalog is any subset of DatasetNames.
InputNames == {"A", "B"}
OutputNames == {"C"}
DatasetNames == InputNames \cup OutputNames

\* Type identifiers a caller may send that the tables do not know.
UnknownTypes == {"merge", "SYNC"}

(***************************************************************************)
(* Recipe type constraints (recipe.py, lines 8-88).                        *)
(***************************************************************************)
SINGLE_INPUT_SINGLE_OUTPUT_TYPES ==
    {"sync", "csync", "sort", "topn", "distinct", "prepare", "shaker",
     "sampling", "grouping", "window", "pivot", "download", "export", "upsert"}

SINGLE_INPUT_MULTI_OUTPUT_TYPES == {"split"}

MULTI_INPUT_SINGLE_OUTPUT_TYPES ==
    {"join", "vstack", "generate_features", "sql_query"}

\* Variant: "sql_query" is also listed as a code type.
CODE_RECIPE_TYPES_Overlap ==
    {"python", "r", "sql_script", "pyspark", "sparkr", "spark_scala", "shell",
     "spark_sql_query", "cpython", "ksql", "streaming_spark_scala", "sql_query"}

\* code recipes are multi input / multi output
CODE_RECIPE_TYPES ==
    {"python", "r", "sql_script", "pyspark", "sparkr", "spark_scala", "shell",
     "spark_sql_query", "cpython", "ksql", "streaming_spark_scala"}

SCORING_TYPES ==
    {"prediction_scoring", "clustering_scoring", "evaluation",
     "standalone_evaluation", "nlp_llm_evaluation"}

OTHER_TYPES ==
    {"extract_failed_rows", "nlp_llm_rag_embedding", "embed_dataset",
     "embed_documents"}

\* Variant: the scoring types are left out of the aggregate.
SINGLE_INPUT_TYPES_NoScoring ==
    SINGLE_INPUT_SINGLE_OUTPUT_TYPES \cup SINGLE_INPUT_MULTI_OUTPUT_TYPES
        \cup OTHER_TYPES

\* Aggregate types (by number of inputs and outputs).
SINGLE_INPUT_TYPES ==
    SINGLE_INPUT_SINGLE_OUTPUT_TYPES \cup SINGLE_INPUT_MULTI_OUTPUT_TYPES
        \cup SCORING_TYPES \cup OTHER_TYPES

\* Variant: the multi-input types are left out of the aggregate.
SINGLE_OUTPUT_TYPES_NoMultiInput ==
    SINGLE_INPUT_SINGLE_OUTPUT_TYPES \cup SCORING_TYPES \cup OTHER_TYPES

SINGLE_OUTPUT_TYPES ==
    SINGLE_INPUT_SINGLE_OUTPUT_TYPES \cup MULTI_INPUT_SINGLE_OUTPUT_TYPES
        \cup SCORING_TYPES \cup OTHER_TYPES

MULTI_OUTPUT_TYPES == CODE_RECIPE_TYPES \cup SINGLE_INPUT_MULTI_OUTPUT_TYPES

ALL_RECIPE_TYPES ==
    SINGLE_INPUT_SINGLE_OUTPUT_TYPES \cup SINGLE_INPUT_MULTI_OUTPUT_TYPES
        \cup MULTI_INPUT_SINGLE_OUTPUT_TYPES \cup CODE_RECIPE_TYPES
        \cup SCORING_TYPES \cup OTHER_TYPES

(***************************************************************************)
(* Python values.  An optional value is a sequence of length at most one:  *)
(* None is the empty sequence, a value v is <<v>>.                          *)
(***************************************************************************)
None == <<>>
Some(v) == <<v>>

SeqsUpTo(S, n) == UNION {[1..k -> S] : k \in 0..n}

\* The arguments of create_recipe (recipe.py, lines 97-104).
RecipeTypeArgs == ALL_RECIPE_TYPES \cup UnknownTypes
InputsArgs == SeqsUpTo(InputNames, MaxInputs)
OutputSpecs == [name : OutputNames, append : {None, Some(TRUE)}]
OutputsArgs == SeqsUpTo(OutputSpecs, MaxOutputs)
RecipeNameArgs == {None, Some("my_recipe")}
CodeArgs == {None, Some(""), Some("print(1)")}

\* The authorization header of the inbound request, as the words that
\* header.split() yields; the header may be absent.
Headers ==
    {[present |-> FALSE, words |-> <<>>],
     [present |-> TRUE, words |-> <<"Bearer">>],
     [present |-> TRUE, words |-> <<"Bearer", "key1">>]}

VARIABLES
    pc,                 \* position of the create_recipe invocation
    request,            \* its arguments
    client,             \* the client handle it holds (None before line 159)
    existing_datasets,  \* the names it read at line 163 (None before)
    calls,              \* the platform interactions it has issued, in order
    create_request,     \* what builder.create() handed to the platform
    result,             \* what the invocation returned or raised
    catalog             \* the datasets of the project, on the platform

\* The other tools (dataset.py, recipe.py, dssclient.py): one invocation at
\* a time is followed through its steps.
VARIABLES
    tool_pc,            \* position of the invocation ("idle" when none)
    tool_args,          \* the tool, its arguments, the request's header
    tool_client,        \* the client handle it holds
    tool_local,         \* the handler's local variables
    tool_log,           \* the SDK calls it has issued, in order
    tool_result,        \* what the invocation returned or raised
    dss                 \* the platform's state that these tools read and write

\* get_auth_info (dssclient.py), invoked by several callers at once.
VARIABLES
    auth_pc,            \* position of each caller's invocation
    auth_header,        \* the authorization header of each caller's request
    auth_client,        \* the client handle each invocation holds
    auth_info,          \* the user_auth_info dict each invocation holds
    auth_result,        \* what each invocation returned or raised
    auth_log            \* the SDK calls issued, in order, with their handle

recipe_vars == <<pc, request, client, existing_datasets, calls, create_request,
                 result, catalog>>

tool_vars == <<tool_pc, tool_args, tool_client, tool_local, tool_log,
               tool_result, dss>>

\* History: the payload written by the latest write to the recipe, when that
\* write was the save of set_visual_recipe_payload.
VARIABLE last_payload

auth_vars == <<auth_pc, auth_header, auth_client, auth_info, auth_result,
               auth_log>>

\* get_general_settings and set_general_settings (dssclient.py), invoked by
\* the same callers: their position, header, client, result and calls are
\* kept in the callers' variables above.
VARIABLES
    settings_args,      \* the tool and arguments of each caller's invocation
    general_settings    \* the settings object each invocation holds

settings_vars == <<settings_args, general_settings>>

\* The module-level names of the server process (recipe.py lines 8-88,
\* dataset.py lines 169-170, dssclient.py lines 521-530).
VARIABLE module_state

vars == <<pc, request, client, existing_datasets, calls, create_request,
          result, catalog, tool_pc, tool_args, tool_client, tool_local,
          tool_log, tool_result, dss, auth_pc, auth_header, auth_client,
          auth_info, auth_result, auth_log, last_payload,
          settings_args, general_settings, module_state>>

NoRequest ==
    [recipe_type |-> "", inputs |-> <<>>, outputs |-> <<>>,
     recipe_name |-> None, code |-> None]

NoResult ==
    [kind |-> "none", error |-> "", names |-> <<>>, recipe_type |-> "",
     inputs |-> <<>>, outputs |-> <<>>]

\* Variant: the failure is raised instead of returned.
ErrorResult_Raise(error, names) ==
    [kind |-> "fault", error |-> error, names |-> names, recipe_type |-> "",
     inputs |-> <<>>, outputs |-> <<>>]

\* A returned dict with an "error" key (recipe.py, lines 134, 140, 142, 145,
\* 149, 155, 166, 172); names are the dataset names listed in the message.
\* The two dataset messages end with "Create them first with
\* create_managed_dataset."
ErrorResult(error, names) ==
    [kind |-> "error", error |-> error, names |-> names, recipe_type |-> "",
     inputs |-> <<>>, outputs |-> <<>>]

\* An exception leaving the handler.
Fault(exception) ==
    [kind |-> "fault", error |-> exception, names |-> <<>>, recipe_type |-> "",
     inputs |-> <<>>, outputs |-> <<>>]


(***************************************************************************)
(* create_recipe, local validation (recipe.py, lines 132-157).  The result *)
(* is the failed check, or "ok".  The tags stand for the messages:         *)
(*   UnknownRecipeType     "Invalid recipe_type ... Must be one of: ..."   *)
(*   MissingInputs         "Recipes requires at least 1 input, got 0"      *)
(*   MissingOutputs        "Recipes requires at least 1 output, got 0"     *)
(*   InputArityViolation   "... requires exactly 1 input, got n"           *)
(*   OutputArityViolation  "... requires exactly 1 output, got n"          *)
(*   ScriptNotApplicable   "The 'code' parameter is only valid for code    *)
(*                          recipe types, not ..."                         *)
(***************************************************************************)
\* Variant: the type is not looked up.
CreateRecipeValidation_NoTypeCheck(req) ==
    IF Len(req.inputs) < 1 THEN "MissingInputs"
    ELSE IF Len(req.outputs) < 1 THEN "MissingOutputs"
    ELSE IF req.recipe_type \in SINGLE_INPUT_TYPES /\ Len(req.inputs) > 1
         THEN "InputArityViolation"
    ELSE IF req.recipe_type \in SINGLE_OUTPUT_TYPES /\ Len(req.outputs) > 1
         THEN "OutputArityViolation"
    ELSE IF req.code # None /\ req.recipe_type \notin CODE_RECIPE_TYPES
         THEN "ScriptNotApplicable"
    ELSE "ok"

\* Variant: the code parameter is not checked.
CreateRecipeValidation_NoScriptCheck(req) ==
    IF req.recipe_type \notin ALL_RECIPE_TYPES THEN "UnknownRecipeType"
    ELSE IF Len(req.inputs) < 1 THEN "MissingInputs"
    ELSE IF Len(req.outputs) < 1 THEN "MissingOutputs"
    ELSE IF req.recipe_type \in SINGLE_INPUT_TYPES /\ Len(req.inputs) > 1
         THEN "InputArityViolation"
    ELSE IF req.recipe_type \in SINGLE_OUTPUT_TYPES /\ Len(req.outputs) > 1
         THEN "OutputArityViolation"
    ELSE "ok"

\* Variant: the arity checks come before the emptiness checks.
CreateRecipeValidation_ArityFirst(req) ==
    IF req.recipe_type \notin ALL_RECIPE_TYPES THEN "UnknownRecipeType"
    ELSE IF req.recipe_type \in SINGLE_INPUT_TYPES /\ Len(req.inputs) > 1
         THEN "InputArityViolation"
    ELSE IF req.recipe_type \in SINGLE_OUTPUT_TYPES /\ Len(req.outputs) > 1
         THEN "OutputArityViolation"
    ELSE IF Len(req.inputs) < 1 THEN "MissingInputs"
    ELSE IF Len(req.outputs) < 1 THEN "MissingOutputs"
    ELSE IF req.code # None /\ req.recipe_type \notin CODE_RECIPE_TYPES
         THEN "ScriptNotApplicable"
    ELSE "ok"

CreateRecipeValidation(req) ==
    IF req.recipe_type \notin ALL_RECIPE_TYPES THEN "UnknownRecipeType"
    ELSE IF Len(req.inputs) < 1 THEN "MissingInputs"
    ELSE IF Len(req.outputs) < 1 THEN "MissingOutputs"
    ELSE IF req.recipe_type \in SINGLE_INPUT_TYPES /\ Len(req.inputs) > 1
         THEN "InputArityViolation"
    ELSE IF req.recipe_type \in SINGLE_OUTPUT_TYPES /\ Len(req.outputs) > 1
         THEN "OutputArityViolation"
    ELSE IF req.code # None /\ req.recipe_type \notin CODE_RECIPE_TYPES
         THEN "ScriptNotApplicable"
    ELSE "ok"

(***************************************************************************)
(* The credential resolver (utils.py, lines 7-14).  headers["authorization"]*)
(* raises KeyError when the header is absent; split()[1] raises IndexError *)
(* when no word follows the scheme.                                        *)
(***************************************************************************)
\* Variant: the last word of the header is taken as the key.
get_impersonated_dss_client_LastWord(header) ==
    IF ~header.present THEN [ok |-> FALSE, exception |-> "KeyError", api_key |-> ""]
    ELSE IF header.words = <<>>
         THEN [ok |-> FALSE, exception |-> "IndexError", api_key |-> ""]
    ELSE [ok |-> TRUE, exception |-> "", api_key |-> header.words[Len(header.words)]]

get_impersonated_dss_client(header) ==
    IF ~header.present THEN [ok |-> FALSE, exception |-> "KeyError", api_key |-> ""]
    ELSE IF Len(header.words) < 2
         THEN [ok |-> FALSE, exception |-> "IndexError", api_key |-> ""]
    ELSE [ok |-> TRUE, exception |-> "", api_key |-> header.words[2]]

(***************************************************************************)
(* The dataset existence check (recipe.py, lines 164 and 170): the names   *)
(* of the request that the listing does not hold, in request order.        *)
(***************************************************************************)
OutputNamesOf(outputs) == [i \in 1..Len(outputs) |-> outputs[i].name]

\* Variant: only the first missing input is kept.
missing_inputs_FirstOnly(inputs, existing) ==
    LET all == SelectSeq(inputs, LAMBDA name : name \notin existing)
    IN  IF all = <<>> THEN <<>> ELSE <<all[1]>>

missing_inputs(inputs, existing) ==
    SelectSeq(inputs, LAMBDA name : name \notin existing)

\* Variant: the outputs are not looked up.
missing_outputs_Unchecked(outputs, existing) == <<>>

missing_outputs(outputs, existing) ==
    SelectSeq(OutputNamesOf(outputs), LAMBDA name : name \notin existing)

(***************************************************************************)
(* The recipe builder (recipe.py, lines 178-190): what create() sends.     *)
(***************************************************************************)
Truthy(code) == code # None /\ code[1] # ""

\* Variant: the append flags of the outputs are dropped.
Builder_NoAppend(req) ==
    [recipe_type |-> req.recipe_type,
     name |-> req.recipe_name,
     inputs |-> req.inputs,
     outputs |-> [i \in 1..Len(req.outputs) |->
                    [name |-> req.outputs[i].name, append |-> FALSE]],
     script |-> IF req.recipe_type \in CODE_RECIPE_TYPES /\ Truthy(req.code)
                THEN req.code ELSE None]

Builder(req) ==
    [recipe_type |-> req.recipe_type,
     name |-> req.recipe_name,
     inputs |-> req.inputs,
     outputs |-> [i \in 1..Len(req.outputs) |->
                    [name |-> req.outputs[i].name,
                     append |-> IF req.outputs[i].append = None THEN FALSE
                                ELSE req.outputs[i].append[1]]],
     script |-> IF req.recipe_type \in CODE_RECIPE_TYPES /\ Truthy(req.code)
                THEN req.code ELSE None]

\* The success dict (recipe.py, lines 193-201).
SuccessResult(req) ==
    [kind |-> "success", error |-> "", names |-> <<>>,
     recipe_type |-> req.recipe_type, inputs |-> req.inputs,
     outputs |-> OutputNamesOf(req.outputs)]

(***************************************************************************)
(* The other tools and the platform state they use, at rest.               *)
(***************************************************************************)
Callers == {"caller1", "caller2"}

NoArgs == [tool |-> "none"]

NoLocal == [tool |-> "none"]

NoToolResult == [kind |-> "none"]

\* One recipe of the project (its type and stored payload), the job that
\* builds its outputs, the rows its dataset yields, the project keys in use,
\* the project's listings of jobs, ML tasks and analyses, the instance's
\* general settings (a dict from key to value).
NoJob == [id |-> "", state |-> None]
DssAtRest ==
    [recipe_type |-> "sync", str_payload |-> "{}",
     job |-> NoJob, source_size |-> 0, endless |-> FALSE, columns |-> <<>>,
     project_keys |-> {},
     jobs |-> <<>>, ml_tasks |-> <<>>, analyses |-> <<>>,
     general_settings |-> <<>>]

ToolsIdle ==
    /\ tool_pc = "idle"
    /\ tool_args = NoArgs
    /\ tool_client = None
    /\ tool_local = NoLocal
    /\ tool_log = <<>>
    /\ tool_result = NoToolResult

AuthIdle ==
    /\ auth_pc = [c \in Callers |-> "idle"]
    /\ auth_header = [c \in Callers |-> [present |-> FALSE, words |-> <<>>]]
    /\ auth_client = [c \in Callers |-> None]
    /\ auth_info = [c \in Callers |-> None]
    /\ auth_result = [c \in Callers |-> NoToolResult]
    /\ auth_log = <<>>

SettingsIdle ==
    /\ settings_args = [c \in Callers |-> NoArgs]
    /\ general_settings = [c \in Callers |-> None]

\* Allowed settings keys that can be retrieved or modified
ALLOWED_GENERAL_SETTINGS_KEYS ==
    <<"sparkSettings", "containerSettings", "defaultK8sClusterId", "security",
      "cgroupSettings", "maxRunningActivitiesPerJob", "maxRunningActivities",
      "maxRunningActivitiesPerKey">>

MAX_SAMPLE_ROWS == 1000
DEFAULT_SAMPLE_ROWS == 50

\* The module-level names as the import of the modules leaves them.
ModuleNames ==
    [SINGLE_INPUT_SINGLE_OUTPUT_TYPES |-> SINGLE_INPUT_SINGLE_OUTPUT_TYPES,
     SINGLE_INPUT_MULTI_OUTPUT_TYPES |-> SINGLE_INPUT_MULTI_OUTPUT_TYPES,
     MULTI_INPUT_SINGLE_OUTPUT_TYPES |-> MULTI_INPUT_SINGLE_OUTPUT_TYPES,
     CODE_RECIPE_TYPES |-> CODE_RECIPE_TYPES,
     SCORING_TYPES |-> SCORING_TYPES,
     OTHER_TYPES |-> OTHER_TYPES,
     SINGLE_INPUT_TYPES |-> SINGLE_INPUT_TYPES,
     SINGLE_OUTPUT_TYPES |-> SINGLE_OUTPUT_TYPES,
     MULTI_OUTPUT_TYPES |-> MULTI_OUTPUT_TYPES,
     ALL_RECIPE_TYPES |-> ALL_RECIPE_TYPES,
     MAX_SAMPLE_ROWS |-> MAX_SAMPLE_ROWS,
     DEFAULT_SAMPLE_ROWS |-> DEFAULT_SAMPLE_ROWS,
     ALLOWED_GENERAL_SETTINGS_KEYS |-> ALLOWED_GENERAL_SETTINGS_KEYS]

ModuleLoaded == module_state = ModuleNames

(***************************************************************************)
(* Initial state: no invocation in progress, any catalog.                  *)
(***************************************************************************)
Init ==
    /\ pc = "idle"
    /\ request = NoRequest
    /\ client = None
    /\ existing_datasets = None
    /\ calls = <<>>
    /\ create_request = None
    /\ result = NoResult
    /\ catalog \in SUBSET DatasetNames
    /\ ToolsIdle
    /\ dss = DssAtRest
    /\ AuthIdle
    /\ SettingsIdle
    /\ ModuleLoaded
    /\ last_payload = None

(***************************************************************************)
(* create_recipe, lines 132-157: the call arrives and is validated locally.*)
(***************************************************************************)
\* Variant: the client is built before the request is validated.
create_recipe_ResolveFirst(recipe_type, inputs, outputs, recipe_name, code) ==
    /\ pc = "idle"
    /\ LET req == [recipe_type |-> recipe_type, inputs |-> inputs,
                   outputs |-> outputs, recipe_name |-> recipe_name,
                   code |-> code]
           check == CreateRecipeValidation(req)
       IN  /\ request' = req
           /\ calls' = Append(calls, "get_impersonated_dss_client")
           /\ \E header \in Headers :
                LET c == get_impersonated_dss_client(header)
                IN  IF ~c.ok
                    THEN /\ client' = client
                         /\ result' = Fault(c.exception)
                         /\ pc' = "done"
                    ELSE /\ client' = Some(c.api_key)
                         /\ IF check # "ok"
                            THEN /\ result' = ErrorResult(check, <<>>)
                                 /\ pc' = "done"
                            ELSE /\ result' = result
                                 /\ pc' = "list"
    /\ UNCHANGED <<existing_datasets, create_request, catalog>>

create_recipe(recipe_type, inputs, outputs, recipe_name, code) ==
    /\ pc = "idle"
    /\ LET req == [recipe_type |-> recipe_type, inputs |-> inputs,
                   outputs |-> outputs, recipe_name |-> recipe_name,
                   code |-> code]
           check == CreateRecipeValidation(req)
       IN  /\ request' = req
           /\ IF check # "ok"
              THEN /\ result' = ErrorResult(check, <<>>)
                   /\ pc' = "done"
              ELSE /\ result' = result
                   /\ pc' = "client"
    /\ UNCHANGED <<client, existing_datasets, calls, create_request, catalog>>

\* Variant: the recipe is built right after the client, with no listing.
create_recipe_client_NoListing ==
    /\ pc = "client"
    /\ \E header \in Headers :
         LET c == get_impersonated_dss_client(header)
         IN  /\ calls' = Append(calls, "get_impersonated_dss_client")
             /\ IF c.ok
                THEN /\ client' = Some(c.api_key)
                     /\ pc' = "create"
                     /\ result' = result
                ELSE /\ client' = client
                     /\ pc' = "done"
                     /\ result' = Fault(c.exception)
    /\ UNCHANGED <<request, existing_datasets, create_request, catalog>>

(***************************************************************************)
(* create_recipe, lines 159-160: the client handle is built from the       *)
(* request's header; get_project only wraps the handle.                    *)
(***************************************************************************)
create_recipe_client ==
    /\ pc = "client"
    /\ \E header \in Headers :
         LET c == get_impersonated_dss_client(header)
         IN  /\ calls' = Append(calls, "get_impersonated_dss_client")
             /\ IF c.ok
                THEN /\ client' = Some(c.api_key)
                     /\ pc' = "list"
                     /\ result' = result
                ELSE /\ client' = client
                     /\ pc' = "done"
                     /\ result' = Fault(c.exception)
    /\ UNCHANGED <<request, existing_datasets, create_request, catalog>>

(***************************************************************************)
(* create_recipe, lines 163-175: the project's datasets are listed (one    *)
(* remote read, which may fail) and the request's names are looked up.     *)
(***************************************************************************)
create_recipe_list_datasets ==
    /\ pc = "list"
    /\ calls' = Append(calls, "list_datasets")
    /\ \E remote_ok \in BOOLEAN :
         IF ~remote_ok
         THEN /\ existing_datasets' = existing_datasets
              /\ result' = Fault("DataikuException")
              /\ pc' = "done"
         ELSE /\ existing_datasets' = Some(catalog)
              /\ LET mi == missing_inputs(request.inputs, catalog)
                     mo == missing_outputs(request.outputs, catalog)
                 IN  IF mi # <<>>
                     THEN /\ result' = ErrorResult("InputDatasetNotFound", mi)
                          /\ pc' = "done"
                     ELSE IF mo # <<>>
                     THEN /\ result' = ErrorResult("OutputDatasetNotFound", mo)
                          /\ pc' = "done"
                     ELSE /\ result' = result
                          /\ pc' = "create"
    /\ UNCHANGED <<request, client, create_request, catalog>>

(***************************************************************************)
(* create_recipe, lines 178-201: the builder is filled and create() is     *)
(* issued (one remote write, which may fail).                              *)
(***************************************************************************)
create_recipe_create ==
    /\ pc = "create"
    /\ calls' = Append(calls, "create_recipe")
    /\ \E remote_ok \in BOOLEAN :
         IF ~remote_ok
         THEN /\ create_request' = create_request
              /\ result' = Fault("DataikuException")
         ELSE /\ create_request' = Some(Builder(request))
              /\ result' = SuccessResult(request)
    /\ pc' = "done"
    /\ UNCHANGED <<request, client, existing_datasets, catalog>>

\* The invocation is over; the handler keeps nothing (no module state).
Return ==
    /\ pc = "done"
    /\ pc' = "idle"
    /\ request' = NoRequest
    /\ client' = None
    /\ existing_datasets' = None
    /\ calls' = <<>>
    /\ create_request' = None
    /\ result' = NoResult
    /\ UNCHANGED catalog

(***************************************************************************)
(* Other callers' dataset tools (dataset.py): each is one remote write.    *)
(* A call the platform refuses (the name exists and overwrite is false;    *)
(* the name does not exist) raises and changes nothing.                    *)
(***************************************************************************)
create_managed_dataset(dataset_name, overwrite) ==
    /\ dataset_name \notin catalog \/ overwrite
    /\ catalog' = catalog \cup {dataset_name}
    /\ UNCHANGED <<pc, request, client, existing_datasets, calls,
                   create_request, result>>

delete_dataset(dataset_name) ==
    /\ dataset_name \in catalog
    /\ catalog' = catalog \ {dataset_name}
    /\ UNCHANGED <<pc, request, client, existing_datasets, calls,
                   create_request, result>>

(***************************************************************************)
(* One create_recipe invocation at a time is followed through its steps;   *)
(* other callers' dataset tools act on the platform at any moment.         *)
(***************************************************************************)
Next ==
    \/ /\ pc = "idle"
       /\ \E recipe_type \in RecipeTypeArgs, inputs \in InputsArgs,
             outputs \in OutputsArgs, recipe_name \in RecipeNameArgs,
             code \in CodeArgs :
            create_recipe(recipe_type, inputs, outputs, recipe_name, code)
       /\ UNCHANGED <<tool_vars, auth_vars, last_payload, settings_vars,
                 module_state>>
    \/ create_recipe_client /\ UNCHANGED <<tool_vars, auth_vars, last_payload, settings_vars,
                 module_state>>
    \/ create_recipe_list_datasets /\ UNCHANGED <<tool_vars, auth_vars, last_payload, settings_vars,
                 module_state>>
    \/ create_recipe_create /\ UNCHANGED <<tool_vars, auth_vars, last_payload, settings_vars,
                 module_state>>
    \/ Return /\ UNCHANGED <<tool_vars, auth_vars, last_payload, settings_vars,
                 module_state>>
    \/ /\ \E dataset_name \in DatasetNames, overwrite \in BOOLEAN :
            create_managed_dataset(dataset_name, overwrite)
       /\ UNCHANGED <<tool_vars, auth_vars, last_payload, settings_vars,
                 module_state>>
    \/ /\ \E dataset_name \in DatasetNames : delete_dataset(dataset_name)
       /\ UNCHANGED <<tool_vars, auth_vars, last_payload, settings_vars,
                 module_state>>

Spec == Init /\ [][Next]_vars

\* Another caller's rename_dataset (dataset.py, lines 81-102): one remote
\* write, which the platform refuses when the old name does not exist or
\* the new one does.
rename_dataset(dataset_name, new_name) ==
    /\ dataset_name \in catalog
    /\ new_name \notin catalog
    /\ catalog' = (catalog \ {dataset_name}) \cup {new_name}
    /\ UNCHANGED <<pc, request, client, existing_datasets, calls,
                   create_request, result>>

\* The create_recipe invocation among other callers' create, delete and
\* rename of datasets.
NextRace ==
    \/ Next
    \/ /\ \E dataset_name \in DatasetNames, new_name \in DatasetNames :
            rename_dataset(dataset_name, new_name)
       /\ UNCHANGED <<tool_vars, auth_vars, last_payload, settings_vars,
                 module_state>>

SpecRace == Init /\ [][NextRace]_vars


(***************************************************************************)
(* Vocabulary of the properties.                                           *)
(***************************************************************************)
Invoked == pc # "idle"

Issued(op) == \E i \in DOMAIN calls : calls[i] = op

CountOf(op) == Cardinality({i \in DOMAIN calls : calls[i] = op})

\* Nothing beyond the handler's own arguments has been touched.
NoPlatformContact ==
    /\ calls = <<>>
    /\ client = None
    /\ existing_datasets = None
    /\ create_request = None

Range(seq) == {seq[i] : i \in DOMAIN seq}

InputSet == Range(request.inputs)

OutputSet == {request.outputs[i].name : i \in DOMAIN request.outputs}

\* The names of the request that the listing read by this invocation lacks.
MissingInputSet == {n \in InputSet : n \notin existing_datasets[1]}

MissingOutputSet == {n \in OutputSet : n \notin existing_datasets[1]}

\* The classes of section 3 of the specification, by cardinality rule.
SingleInputClasses ==
    SINGLE_INPUT_SINGLE_OUTPUT_TYPES \cup SINGLE_INPUT_MULTI_OUTPUT_TYPES
        \cup SCORING_TYPES \cup OTHER_TYPES

SingleOutputClasses ==
    SINGLE_INPUT_SINGLE_OUTPUT_TYPES \cup MULTI_INPUT_SINGLE_OUTPUT_TYPES
        \cup SCORING_TYPES \cup OTHER_TYPES

ArityErrors == {"InputArityViolation", "OutputArityViolation"}

NonEmptyCode == request.code # None /\ request.code[1] # ""

RejectedLocally ==
    /\ pc = "done"
    /\ result.kind = "error"
    /\ NoPlatformContact

(***************************************************************************)
(* C1: a create_recipe call whose recipe_type is not in ALL_RECIPE_TYPES   *)
(* returns an error result (the unknown-type error) whatever the other     *)
(* arguments are, and issues no remote call: no credential resolution, no  *)
(* dataset listing, no recipe creation.                                    *)
(***************************************************************************)
C1_UnknownTypeRejected ==
    (Invoked /\ request.recipe_type \notin ALL_RECIPE_TYPES)
        => (RejectedLocally /\ result.error = "UnknownRecipeType")

C1_Witness ==
    /\ pc = "done"
    /\ request.recipe_type = "merge"
    /\ Len(request.inputs) = 2
    /\ request.code # None
    /\ result.error = "UnknownRecipeType"

(***************************************************************************)
(* C2, as stated: for a type of a single-input class, a call with 2 or     *)
(* more inputs returns an arity error and issues no remote call.           *)
(***************************************************************************)
C2_Original ==
    (Invoked /\ request.recipe_type \in SingleInputClasses
             /\ Len(request.inputs) >= 2)
        => (RejectedLocally /\ result.error \in ArityErrors)

(***************************************************************************)
(* C2, amended: for a type of a single-input class, a call with 2 or more  *)
(* inputs issues no remote call and returns an error result: the           *)
(* input-arity error when the output list is non-empty, the missing-outputs*)
(* error when it is empty.                                                 *)
(***************************************************************************)
C2_InputArity ==
    (Invoked /\ request.recipe_type \in SingleInputClasses
             /\ Len(request.inputs) >= 2)
        => /\ RejectedLocally
           /\ result.error = IF Len(request.outputs) = 0
                             THEN "MissingOutputs"
                             ELSE "InputArityViolation"

C2_Witness ==
    /\ pc = "done"
    /\ request.recipe_type = "evaluation"
    /\ Len(request.inputs) = 2
    /\ Len(request.outputs) = 1
    /\ result.error = "InputArityViolation"

(***************************************************************************)
(* C3, as stated: for a type of a single-output class, a call with 2 or    *)
(* more outputs returns an arity error and issues no remote call.          *)
(***************************************************************************)
C3_Original ==
    (Invoked /\ request.recipe_type \in SingleOutputClasses
             /\ Len(request.outputs) >= 2)
        => (RejectedLocally /\ result.error \in ArityErrors)

(***************************************************************************)
(* C3, amended: for a type of a single-output class, a call with 2 or more *)
(* outputs issues no remote call and returns an error result: the          *)
(* missing-inputs error when the input list is empty, the input-arity error*)
(* when the type is also single-input and 2 or more inputs are given, and  *)
(* the output-arity error otherwise.                                       *)
(***************************************************************************)
C3_OutputArity ==
    (Invoked /\ request.recipe_type \in SingleOutputClasses
             /\ Len(request.outputs) >= 2)
        => /\ RejectedLocally
           /\ result.error =
                IF Len(request.inputs) = 0 THEN "MissingInputs"
                ELSE IF request.recipe_type \in SingleInputClasses
                        /\ Len(request.inputs) >= 2
                     THEN "InputArityViolation"
                ELSE "OutputArityViolation"

C3_Witness ==
    /\ pc = "done"
    /\ request.recipe_type = "join"
    /\ Len(request.inputs) = 2
    /\ Len(request.outputs) = 2
    /\ result.error = "OutputArityViolation"

(***************************************************************************)
(* C4, as stated: a call with a non-empty code argument and a type outside *)
(* CODE_RECIPE_TYPES returns the script-not-applicable error and does not  *)
(* contact the platform.                                                   *)
(***************************************************************************)
C4_Original ==
    (Invoked /\ NonEmptyCode /\ request.recipe_type \notin CODE_RECIPE_TYPES)
        => (RejectedLocally /\ result.error = "ScriptNotApplicable")

\* The request passes the checks that come before the code check.
PassesTypeAndCounts ==
    /\ request.recipe_type \in ALL_RECIPE_TYPES
    /\ Len(request.inputs) >= 1
    /\ Len(request.outputs) >= 1
    /\ ~(request.recipe_type \in SingleInputClasses /\ Len(request.inputs) >= 2)
    /\ ~(request.recipe_type \in SingleOutputClasses /\ Len(request.outputs) >= 2)

(***************************************************************************)
(* C4, amended: a call with a non-empty code argument and a type outside   *)
(* CODE_RECIPE_TYPES returns an error result without contacting the        *)
(* platform; the error is the script-not-applicable one when the type is   *)
(* known and the input and output lists pass the count checks, and the     *)
(* error of an earlier check otherwise.                                    *)
(***************************************************************************)
C4_ScriptNotApplicable ==
    (Invoked /\ NonEmptyCode /\ request.recipe_type \notin CODE_RECIPE_TYPES)
        => /\ RejectedLocally
           /\ PassesTypeAndCounts <=> result.error = "ScriptNotApplicable"

C4_Witness ==
    /\ pc = "done"
    /\ request.recipe_type = "sync"
    /\ Len(request.inputs) = 1
    /\ Len(request.outputs) = 1
    /\ request.code = Some("print(1)")
    /\ result.error = "ScriptNotApplicable"

(***************************************************************************)
(* C5: once the invocation has read the project's dataset listing and an   *)
(* input or output name of the request is absent from it, the invocation   *)
(* has returned an error result and has issued no recipe creation call.    *)
(***************************************************************************)
C5_NoCreationWhenMissing ==
    (existing_datasets # None /\ MissingInputSet \cup MissingOutputSet # {})
        => /\ pc = "done"
           /\ result.kind = "error"
           /\ ~Issued("create_recipe")
           /\ create_request = None

\* The example of the specification: join, inputs [A, B], output C,
\* catalog {A, C}.
C5_Witness ==
    /\ pc = "done"
    /\ request.recipe_type = "join"
    /\ request.inputs = <<"A", "B">>
    /\ Len(request.outputs) = 1
    /\ existing_datasets = Some({"A", "C"})
    /\ result.kind = "error"
    /\ result.names = <<"B">>

(***************************************************************************)
(* C6, as stated: when the existence check fails, every input name and     *)
(* every output name absent from the listing appears in the error.         *)
(***************************************************************************)
C6_Original ==
    (pc = "done"
        /\ result.error \in {"InputDatasetNotFound", "OutputDatasetNotFound"})
        => (MissingInputSet \cup MissingOutputSet) \subseteq Range(result.names)

(***************************************************************************)
(* C6, amended: when the existence check fails, the error names the        *)
(* missing entries of one list: every input name absent from the listing   *)
(* when there is one (the missing outputs are then not named), and         *)
(* otherwise every output name absent from the listing; in both cases with *)
(* the instruction to create them first.                                   *)
(***************************************************************************)
C6_NamesMissing ==
    /\ (existing_datasets # None /\ MissingInputSet # {})
          => /\ result.kind = "error"
             /\ result.error = "InputDatasetNotFound"
             /\ Range(result.names) = MissingInputSet
    /\ (existing_datasets # None /\ MissingInputSet = {}
                                 /\ MissingOutputSet # {})
          => /\ result.kind = "error"
             /\ result.error = "OutputDatasetNotFound"
             /\ Range(result.names) = MissingOutputSet

C6_Witness ==
    /\ pc = "done"
    /\ result.error = "InputDatasetNotFound"
    /\ result.names = <<"A", "B">>
    /\ MissingOutputSet = {"C"}

(***************************************************************************)
(* C7: in an invocation that has issued the recipe creation call, exactly  *)
(* one dataset listing was issued, it came before the creation call, and   *)
(* it held every input and output name of the request.                     *)
(***************************************************************************)
C7_ListingBeforeCreation ==
    (Issued("create_recipe") \/ pc = "create")
        => /\ CountOf("list_datasets") = 1
           /\ CountOf("create_recipe") <= 1
           /\ \A i, j \in DOMAIN calls :
                (calls[i] = "list_datasets" /\ calls[j] = "create_recipe")
                    => i < j
           /\ existing_datasets # None
           /\ (InputSet \cup OutputSet) \subseteq existing_datasets[1]

C7_Witness ==
    /\ pc = "done"
    /\ result.kind = "success"
    /\ Len(request.inputs) = 2
    /\ calls = <<"get_impersonated_dss_client", "list_datasets",
                 "create_recipe">>

\* A request fails one of the local checks of the specification's list.
FailsLocalCheck ==
    \/ request.recipe_type \notin ALL_RECIPE_TYPES
    \/ Len(request.inputs) = 0
    \/ Len(request.outputs) = 0
    \/ request.recipe_type \in SingleInputClasses /\ Len(request.inputs) >= 2
    \/ request.recipe_type \in SingleOutputClasses /\ Len(request.outputs) >= 2
    \/ request.code # None /\ request.recipe_type \notin CODE_RECIPE_TYPES

FailsDatasetCheck ==
    existing_datasets # None /\ MissingInputSet \cup MissingOutputSet # {}

(***************************************************************************)
(* C8: an invocation whose arguments fail a pre-flight check (unknown type,*)
(* empty input or output list, input or output arity, script on a non-code *)
(* type, a name absent from the listing it read) ends with a returned      *)
(* result of kind error; it does not raise.                                *)
(***************************************************************************)
C8_FailuresAreResults ==
    (Invoked /\ (FailsLocalCheck \/ FailsDatasetCheck))
        => (pc = "done" /\ result.kind = "error")

C8_Witness ==
    /\ pc = "done"
    /\ result.kind = "error"
    /\ result.error = "OutputDatasetNotFound"
    /\ request.recipe_type = "python"
    /\ request.code # None

\* The local checks in the order of the specification, and their errors.
ViolatedChecks ==
    {k \in 1..6 :
        \/ k = 1 /\ request.recipe_type \notin ALL_RECIPE_TYPES
        \/ k = 2 /\ Len(request.inputs) = 0
        \/ k = 3 /\ Len(request.outputs) = 0
        \/ k = 4 /\ request.recipe_type \in SingleInputClasses
                 /\ Len(request.inputs) >= 2
        \/ k = 5 /\ request.recipe_type \in SingleOutputClasses
                 /\ Len(request.outputs) >= 2
        \/ k = 6 /\ request.code # None
                 /\ request.recipe_type \notin CODE_RECIPE_TYPES}

CheckError ==
    <<"UnknownRecipeType", "MissingInputs", "MissingOutputs",
      "InputArityViolation", "OutputArityViolation", "ScriptNotApplicable">>

(***************************************************************************)
(* C9: the error of a locally rejected request is that of the earliest     *)
(* violated check in the order unknown type, empty inputs, empty outputs,  *)
(* input arity, output arity, script on a non-code type; a request that    *)
(* violates none gets none of these errors.                                *)
(***************************************************************************)
C9_FirstFailureWins ==
    Invoked =>
        IF ViolatedChecks = {}
        THEN result.error \notin Range(CheckError)
        ELSE /\ pc = "done"
             /\ \E k \in ViolatedChecks :
                  /\ \A m \in ViolatedChecks : k <= m
                  /\ result.error = CheckError[k]

C9_Witness ==
    /\ pc = "done"
    /\ ViolatedChecks = {2, 5, 6}
    /\ result.error = "MissingInputs"

Classes ==
    <<SINGLE_INPUT_SINGLE_OUTPUT_TYPES, SINGLE_INPUT_MULTI_OUTPUT_TYPES,
      MULTI_INPUT_SINGLE_OUTPUT_TYPES, CODE_RECIPE_TYPES, SCORING_TYPES,
      OTHER_TYPES>>

ClassesOf(t) == {i \in DOMAIN Classes : t \in Classes[i]}

(***************************************************************************)
(* C10: the six class sets are pairwise disjoint and their union is        *)
(* ALL_RECIPE_TYPES; every type has exactly one output rule (it is in      *)
(* SINGLE_OUTPUT_TYPES or in MULTI_OUTPUT_TYPES, never both); and the types*)
(* create_recipe accepts are those of exactly one class, the types it      *)
(* rejects as unknown those of no class.                                   *)
(***************************************************************************)
C10_ClassesPartition ==
    /\ \A i, j \in DOMAIN Classes :
         i # j => Classes[i] \cap Classes[j] = {}
    /\ UNION Range(Classes) = ALL_RECIPE_TYPES
    /\ \A t \in ALL_RECIPE_TYPES :
         (t \in SINGLE_OUTPUT_TYPES) # (t \in MULTI_OUTPUT_TYPES)
    /\ Invoked =>
         IF result.error = "UnknownRecipeType"
         THEN ClassesOf(request.recipe_type) = {}
         ELSE Cardinality(ClassesOf(request.recipe_type)) = 1

C10_Witness ==
    /\ pc = "create"
    /\ request.recipe_type = "split"
    /\ Len(request.outputs) = 2


(***************************************************************************)
(* The other tools.  Each handler resolves its client, issues its SDK      *)
(* calls one after the other and returns; an exception of the resolver or  *)
(* of an SDK call leaves the handler unless the handler catches it.        *)
(***************************************************************************)
\* An SDK call as the platform sees it: the operation, the API key of the
\* handle it went through, and whether it succeeded.
SdkCall(op, handle, ok) == [op |-> op, key |-> handle[1], ok |-> ok]

\* An exception leaving a handler.
ToolFault(exception) == [kind |-> "fault", exception |-> exception]

\* The handler has returned or raised; nothing of the invocation is kept.
ToolReturn ==
    /\ tool_pc = "done"
    /\ tool_pc' = "idle"
    /\ tool_args' = NoArgs
    /\ tool_client' = None
    /\ tool_local' = NoLocal
    /\ tool_log' = <<>>
    /\ tool_result' = NoToolResult
    /\ UNCHANGED dss

(***************************************************************************)
(* get_dataset_sample (dataset.py, lines 169-227).                         *)
(***************************************************************************)

\* Sources and requests around 0 are enumerated up to this size.
MaxSmallRows == 3

NumRowsArgs ==
    (-1 .. MaxSmallRows + 1)
        \cup {DEFAULT_SAMPLE_ROWS, MAX_SAMPLE_ROWS - 1, MAX_SAMPLE_ROWS,
              MAX_SAMPLE_ROWS + 1, 5 * MAX_SAMPLE_ROWS}

\* Numbers of rows the dataset yields.
SourceSizes ==
    (0 .. MaxSmallRows) \cup {DEFAULT_SAMPLE_ROWS + 1, MAX_SAMPLE_ROWS + 2}

\* The schemas of the dataset: the names of schema["columns"].
ColumnLists == {<<>>, <<"id", "amount">>}

\* The values of the i-th row the dataset yields.
RowValues(i) == <<i, -i>>

\* Variant: requests below 1 are not raised to 1.
ClampNumRows_NoFloor(num_rows) ==
    IF num_rows > MAX_SAMPLE_ROWS THEN MAX_SAMPLE_ROWS ELSE num_rows

\* Enforce row limits (lines 196-200).
ClampNumRows(num_rows) ==
    LET capped == IF num_rows > MAX_SAMPLE_ROWS THEN MAX_SAMPLE_ROWS
                  ELSE num_rows
    IN  IF capped < 1 THEN 1 ELSE capped

\* dict(zip(column_names, row_values)) (line 215).
ZipDict(column_names, row_values) ==
    LET n == IF Len(column_names) < Len(row_values) THEN Len(column_names)
             ELSE Len(row_values)
    IN  [c \in {column_names[j] : j \in 1..n} |->
            row_values[CHOOSE j \in 1..n : column_names[j] = c]]

\* Lines 192-200: the handles are built and the limit is enforced.
get_dataset_sample(header, num_rows) ==
    /\ tool_pc = "idle"
    /\ tool_args' = [tool |-> "get_dataset_sample", header |-> header,
                     num_rows |-> num_rows]
    /\ LET c == get_impersonated_dss_client(header)
       IN  IF c.ok
           THEN /\ tool_client' = Some(c.api_key)
                /\ tool_local' = [num_rows |-> ClampNumRows(num_rows),
                                  column_names |-> <<>>, rows |-> <<>>,
                                  consumed |-> 0]
                /\ tool_result' = tool_result
                /\ tool_pc' = "schema"
           ELSE /\ tool_client' = tool_client
                /\ tool_local' = tool_local
                /\ tool_result' = ToolFault(c.exception)
                /\ tool_pc' = "done"
    /\ UNCHANGED <<tool_log, dss>>

\* Lines 202-204: the schema is read (one remote read, which may fail).
get_dataset_sample_schema ==
    /\ tool_pc = "schema"
    /\ \E remote_ok \in BOOLEAN :
         /\ tool_log' = Append(tool_log,
                               SdkCall("get_schema", tool_client, remote_ok))
         /\ IF remote_ok
            THEN /\ tool_local' =
                      [tool_local EXCEPT !.column_names = dss.columns]
                 /\ tool_result' = tool_result
                 /\ tool_pc' = "rows"
            ELSE /\ tool_local' = tool_local
                 /\ tool_result' = ToolFault("DataikuException")
                 /\ tool_pc' = "done"
    /\ UNCHANGED <<tool_args, tool_client, dss>>

\* The iterator has a row to yield after `consumed` rows: the source has
\* source_size rows, or never ends.
HasNext(platform, consumed) ==
    platform.endless \/ consumed < platform.source_size

\* Variant: the loop has no break and reads the iterator to its end.
get_dataset_sample_row_NoBreak ==
    /\ tool_pc = "rows"
    /\ LET first == tool_local.consumed = 0
           logged == IF first
                     THEN Append(tool_log,
                                 SdkCall("iter_rows", tool_client, TRUE))
                     ELSE tool_log
       IN  IF HasNext(dss, tool_local.consumed)
           THEN LET i == tool_local.consumed + 1
                    row_dict == ZipDict(tool_local.column_names, RowValues(i))
                    rows == Append(tool_local.rows, row_dict)
                IN  /\ tool_log' = logged
                    /\ tool_local' = [tool_local EXCEPT !.rows = rows,
                                                        !.consumed = i]
                    /\ tool_result' = tool_result
                    /\ tool_pc' = "rows"
           ELSE /\ tool_log' = logged
                /\ tool_local' = tool_local
                /\ tool_result' = tool_result
                /\ tool_pc' = "return"
    /\ UNCHANGED <<tool_args, tool_client, dss>>

\* Variant: the loop stops only after one row more than the limit.
get_dataset_sample_row_OneMore ==
    /\ tool_pc = "rows"
    /\ LET first == tool_local.consumed = 0
           logged == IF first
                     THEN Append(tool_log,
                                 SdkCall("iter_rows", tool_client, TRUE))
                     ELSE tool_log
       IN  IF HasNext(dss, tool_local.consumed)
           THEN LET i == tool_local.consumed + 1
                    row_dict == ZipDict(tool_local.column_names, RowValues(i))
                    rows == Append(tool_local.rows, row_dict)
                IN  /\ tool_log' = logged
                    /\ tool_local' = [tool_local EXCEPT !.rows = rows,
                                                        !.consumed = i]
                    /\ tool_result' = tool_result
                    /\ tool_pc' = IF Len(rows) > tool_local.num_rows
                                  THEN "return" ELSE "rows"
           ELSE /\ tool_log' = logged
                /\ tool_local' = tool_local
                /\ tool_result' = tool_result
                /\ tool_pc' = "return"
    /\ UNCHANGED <<tool_args, tool_client, dss>>

\* Lines 211-218, one turn of the loop: the iterator (a streamed remote
\* read, opened by the first turn) yields the next row, fails, or is
\* exhausted; the loop ends when the limit is reached.
get_dataset_sample_row ==
    /\ tool_pc = "rows"
    /\ LET first == tool_local.consumed = 0
           logged(ok) == IF first
                         THEN Append(tool_log,
                                     SdkCall("iter_rows", tool_client, ok))
                         ELSE tool_log
       IN  IF HasNext(dss, tool_local.consumed)
           THEN \/ LET i == tool_local.consumed + 1
                       row_dict == ZipDict(tool_local.column_names,
                                           RowValues(i))
                       rows == Append(tool_local.rows, row_dict)
                   IN  /\ tool_log' = logged(TRUE)
                       /\ tool_local' = [tool_local EXCEPT !.rows = rows,
                                                           !.consumed = i]
                       /\ tool_result' = tool_result
                       /\ tool_pc' = IF Len(rows) >= tool_local.num_rows
                                     THEN "return" ELSE "rows"
                \/ /\ first
                   /\ tool_log' = logged(FALSE)
                   /\ tool_local' = tool_local
                   /\ tool_result' = ToolFault("DataikuException")
                   /\ tool_pc' = "done"
           ELSE /\ tool_log' = logged(TRUE)
                /\ tool_local' = tool_local
                /\ tool_result' = tool_result
                /\ tool_pc' = "return"
    /\ UNCHANGED <<tool_args, tool_client, dss>>

\* Lines 220-227: the result dict.
get_dataset_sample_return ==
    /\ tool_pc = "return"
    /\ tool_args.tool = "get_dataset_sample"
    /\ tool_result' =
         [kind |-> "return",
          num_rows_requested |-> tool_local.num_rows,
          num_rows_returned |-> Len(tool_local.rows),
          columns |-> tool_local.column_names,
          rows |-> tool_local.rows]
    /\ tool_pc' = "done"
    /\ UNCHANGED <<tool_args, tool_client, tool_local, tool_log, dss>>

(***************************************************************************)
(* create_project (dssclient.py, lines 48-125).                            *)
(***************************************************************************)
\* Project names are sequences of characters.  str.isalpha, str.upper and
\* str.isdigit on the characters used: upper of a letter may be longer
\* than the letter.
Upper ==
    [ch \in {"a", "c", "e", "j", "o", "r", "t", "y", "M", "P", "ß"} |->
        CASE ch = "a" -> "A" [] ch = "c" -> "C" [] ch = "e" -> "E"
          [] ch = "j" -> "J" [] ch = "o" -> "O" [] ch = "r" -> "R"
          [] ch = "t" -> "T" [] ch = "y" -> "Y" [] ch = "M" -> "M"
          [] ch = "P" -> "P" [] ch = "ß" -> "SS"]
Digits == {"1", "7"}
isalpha(ch) == ch \in DOMAIN Upper
isdigit(ch) == ch \in Digits

\* "".join(result)
RECURSIVE Join(_)
Join(parts) ==
    IF parts = <<>> THEN "" ELSE parts[1] \o Join(Tail(parts))

\* Variant: characters that are neither letters nor digits are kept.
_generate_project_key_KeepOthers(project_name) ==
    Join([i \in 1..Len(project_name) |->
            IF isalpha(project_name[i]) THEN Upper[project_name[i]]
            ELSE project_name[i]])

\* Lines 48-66.
_generate_project_key(project_name) ==
    Join([i \in 1..Len(project_name) |->
            IF isalpha(project_name[i]) THEN Upper[project_name[i]]
            ELSE IF isdigit(project_name[i]) THEN project_name[i]
            ELSE "_"])

\* Names up to this length are enumerated.
MaxNameLen == 2
NameChars == {"a", "7", "#"}
ExampleName ==
    <<"M", "y", " ", "P", "r", "o", "j", "e", "c", "t", " ", "#", "1">>
ProjectNames ==
    SeqsUpTo(NameChars, MaxNameLen) \cup {ExampleName, <<"ß", "M">>}
ProjectKeyArgs == {None, Some(""), Some("my-key"), Some("A7")}
OwnerArgs == {None, Some("alice")}

\* The platform's answer to get_auth_info for the key of a handle.
AuthIdentifier(handle) == "user-" \o handle[1]

\* An SDK call that carries an argument of interest.
SdkRequest(op, handle, ok, arg) ==
    [op |-> op, key |-> handle[1], ok |-> ok, arg |-> arg]

\* Lines 100-104: the handle is built and the key is chosen.
create_project(header, project_name, owner, project_key) ==
    /\ tool_pc = "idle"
    /\ tool_args' = [tool |-> "create_project", header |-> header,
                     project_name |-> project_name, owner |-> owner,
                     project_key |-> project_key]
    /\ LET c == get_impersonated_dss_client(header)
       IN  IF c.ok
           THEN /\ tool_client' = Some(c.api_key)
                /\ tool_local' =
                     [project_key |->
                         IF project_key = None
                         THEN _generate_project_key(project_name)
                         ELSE project_key[1],
                      owner |-> owner]
                /\ tool_result' = tool_result
                /\ tool_pc' = IF owner = None THEN "auth_info" ELSE "create"
           ELSE /\ tool_client' = tool_client
                /\ tool_local' = tool_local
                /\ tool_result' = ToolFault(c.exception)
                /\ tool_pc' = "done"
    /\ UNCHANGED <<tool_log, dss>>

\* Lines 106-109: the current user becomes the owner.
create_project_auth_info ==
    /\ tool_pc = "auth_info"
    /\ tool_args.tool = "create_project"
    /\ \E remote_ok \in BOOLEAN :
         /\ tool_log' = Append(tool_log,
                               SdkCall("get_auth_info", tool_client, remote_ok))
         /\ IF remote_ok
            THEN /\ tool_local' =
                      [tool_local EXCEPT
                          !.owner = Some(AuthIdentifier(tool_client))]
                 /\ tool_result' = tool_result
                 /\ tool_pc' = "create"
            ELSE /\ tool_local' = tool_local
                 /\ tool_result' = ToolFault("DataikuException")
                 /\ tool_pc' = "done"
    /\ UNCHANGED <<tool_args, tool_client, dss>>

\* Lines 111-125: the project is created and described.  The platform
\* refuses a key it already has, and may refuse for other reasons.
create_project_create ==
    /\ tool_pc = "create"
    /\ tool_args.tool = "create_project"
    /\ \E permitted \in BOOLEAN :
         LET remote_ok == permitted /\ tool_local.project_key \notin dss.project_keys
         IN  /\ tool_log' = Append(tool_log,
                                   SdkRequest("create_project", tool_client,
                                              remote_ok,
                                              tool_local.project_key))
             /\ IF remote_ok
                THEN /\ dss' = [dss EXCEPT !.project_keys =
                                    @ \cup {tool_local.project_key}]
                     /\ tool_result' =
                          [kind |-> "return",
                           projectKey |-> tool_local.project_key,
                           name |-> tool_args.project_name,
                           owner |-> tool_local.owner[1]]
                ELSE /\ dss' = dss
                     /\ tool_result' = ToolFault("DataikuException")
             /\ tool_pc' = "done"
    /\ UNCHANGED <<tool_args, tool_client, tool_local>>

(***************************************************************************)
(* get_recipe_settings and set_visual_recipe_payload (recipe.py, lines     *)
(* 209-243 and 283-334).  The settings object keeps the payload as the     *)
(* string the platform stores: set_json_payload serialises the dict and    *)
(* get_json_payload parses the string.                                     *)
(***************************************************************************)
\* JSON values: strings and numbers.
JStr(s) == [str |-> s]
JInt(n) == [int |-> n]

\* Payload dicts, as the sequence of their items.
Payloads ==
    {<<>>,
     <<<<"mode", JStr("LEFT")>>>>,
     <<<<"limit", JStr("1")>>>>,
     <<<<"limit", JInt(1)>>>>,
     <<<<"mode", JStr("LEFT")>>, <<"limit", JInt(1)>>>>}

\* Variant: strings are written without their quotes.
DumpsValue_Unquoted(v) ==
    IF "str" \in DOMAIN v THEN v.str ELSE ToString(v.int)

\* json.dumps of a value.
DumpsValue(v) ==
    IF "str" \in DOMAIN v THEN "\"" \o v.str \o "\"" ELSE ToString(v.int)

RECURSIVE DumpsItems(_)
DumpsItems(items) ==
    IF items = <<>> THEN ""
    ELSE "\"" \o items[1][1] \o "\": " \o DumpsValue(items[1][2])
            \o (IF Len(items) > 1 THEN ", " ELSE "")
            \o DumpsItems(Tail(items))

\* json.dumps of a dict.
Dumps(payload) == "{" \o DumpsItems(payload) \o "}"

\* json.loads of a string: the dict the string is the text of.
Loads(text) == CHOOSE payload \in Payloads : Dumps(payload) = text

\* The recipe types of the recipe the tools are pointed at.
ExistingRecipeTypes == {"sync", "join", "python"}

\* The script of the recipe when it is a code recipe.
ScriptText == "print(1)"

\* Lines 223-225: the handles are built.
get_recipe_settings(header) ==
    /\ tool_pc = "idle"
    /\ tool_args' = [tool |-> "get_recipe_settings", header |-> header]
    /\ LET c == get_impersonated_dss_client(header)
       IN  IF c.ok
           THEN /\ tool_client' = Some(c.api_key)
                /\ tool_result' = tool_result
                /\ tool_pc' = "get_settings"
           ELSE /\ tool_client' = tool_client
                /\ tool_result' = ToolFault(c.exception)
                /\ tool_pc' = "done"
    /\ UNCHANGED <<tool_local, tool_log, dss, last_payload>>

\* Lines 226-243: the settings are read and reshaped.
get_recipe_settings_read ==
    /\ tool_pc = "get_settings"
    /\ tool_args.tool = "get_recipe_settings"
    /\ \E remote_ok \in BOOLEAN :
         /\ tool_log' = Append(tool_log,
                               SdkCall("get_settings", tool_client, remote_ok))
         /\ tool_result' =
              IF ~remote_ok THEN ToolFault("DataikuException")
              ELSE IF dss.recipe_type \in CODE_RECIPE_TYPES
              THEN [kind |-> "return", type |-> dss.recipe_type,
                    code |-> Some(dss.str_payload), payload |-> None]
              ELSE [kind |-> "return", type |-> dss.recipe_type,
                    code |-> None, payload |-> Some(Loads(dss.str_payload))]
    /\ tool_pc' = "done"
    /\ UNCHANGED <<tool_args, tool_client, tool_local, dss, last_payload>>

\* Lines 302-304: the handles are built.
set_visual_recipe_payload(header, payload) ==
    /\ tool_pc = "idle"
    /\ tool_args' = [tool |-> "set_visual_recipe_payload", header |-> header,
                     payload |-> payload]
    /\ LET c == get_impersonated_dss_client(header)
       IN  IF c.ok
           THEN /\ tool_client' = Some(c.api_key)
                /\ tool_result' = tool_result
                /\ tool_pc' = "get_settings"
           ELSE /\ tool_client' = tool_client
                /\ tool_result' = ToolFault(c.exception)
                /\ tool_pc' = "done"
    /\ UNCHANGED <<tool_local, tool_log, dss, last_payload>>

\* The result dict of lines 317-323, with the two optional fields.
PayloadUpdated(recipe_type, applied, warning) ==
    [kind |-> "return", success |-> TRUE, recipe_type |-> recipe_type,
     schema_updates_applied |-> applied, schema_update_warning |-> warning]

\* Lines 305-314: the settings are read, code recipes are turned away, the
\* payload is put into the settings object.
set_visual_recipe_payload_settings ==
    /\ tool_pc = "get_settings"
    /\ tool_args.tool = "set_visual_recipe_payload"
    /\ \E remote_ok \in BOOLEAN :
         /\ tool_log' = Append(tool_log,
                               SdkCall("get_settings", tool_client, remote_ok))
         /\ IF ~remote_ok
            THEN /\ tool_result' = ToolFault("DataikuException")
                 /\ tool_local' = tool_local
                 /\ tool_pc' = "done"
            ELSE IF dss.recipe_type \in CODE_RECIPE_TYPES
            THEN /\ tool_result' = [kind |-> "return", error |-> "code recipe"]
                 /\ tool_local' = tool_local
                 /\ tool_pc' = "done"
            ELSE /\ tool_result' = tool_result
                 /\ tool_local' = [recipe_type |-> dss.recipe_type,
                                   str_payload |-> Dumps(tool_args.payload)]
                 /\ tool_pc' = "save"
    /\ UNCHANGED <<tool_args, tool_client, dss, last_payload>>

\* Line 315: the settings are saved.
set_visual_recipe_payload_save ==
    /\ tool_pc = "save"
    /\ \E remote_ok \in BOOLEAN :
         /\ tool_log' = Append(tool_log,
                               SdkCall("save", tool_client, remote_ok))
         /\ IF remote_ok
            THEN /\ dss' = [dss EXCEPT !.str_payload = tool_local.str_payload]
                 /\ last_payload' = Some(tool_args.payload)
                 /\ tool_result' = tool_result
                 /\ tool_pc' = "compute_schema_updates"
            ELSE /\ dss' = dss
                 /\ last_payload' = last_payload
                 /\ tool_result' = ToolFault("DataikuException")
                 /\ tool_pc' = "done"
    /\ UNCHANGED <<tool_args, tool_client, tool_local>>

\* Variant: a failure of compute_schema_updates leaves the handler.
set_visual_recipe_payload_compute_Raise ==
    /\ tool_pc = "compute_schema_updates"
    /\ \E remote_ok \in BOOLEAN, any_action_required \in BOOLEAN :
         /\ tool_log' = Append(tool_log,
                               SdkCall("compute_schema_updates", tool_client,
                                       remote_ok))
         /\ IF ~remote_ok
            THEN /\ tool_result' = ToolFault("DataikuException")
                 /\ tool_pc' = "done"
            ELSE IF any_action_required
            THEN /\ tool_result' = tool_result
                 /\ tool_pc' = "apply"
            ELSE /\ tool_result' =
                      PayloadUpdated(tool_local.recipe_type, None, None)
                 /\ tool_pc' = "done"
    /\ UNCHANGED <<tool_args, tool_client, tool_local, dss, last_payload>>

\* Lines 326-328 and 331-334: the schema updates are computed; a failure is
\* written into the result.
set_visual_recipe_payload_compute ==
    /\ tool_pc = "compute_schema_updates"
    /\ \E remote_ok \in BOOLEAN, any_action_required \in BOOLEAN :
         /\ tool_log' = Append(tool_log,
                               SdkCall("compute_schema_updates", tool_client,
                                       remote_ok))
         /\ IF ~remote_ok
            THEN /\ tool_result' =
                      PayloadUpdated(tool_local.recipe_type, None,
                                     Some("compute failed"))
                 /\ tool_pc' = "done"
            ELSE IF any_action_required
            THEN /\ tool_result' = tool_result
                 /\ tool_pc' = "apply"
            ELSE /\ tool_result' =
                      PayloadUpdated(tool_local.recipe_type, None, None)
                 /\ tool_pc' = "done"
    /\ UNCHANGED <<tool_args, tool_client, tool_local, dss, last_payload>>

\* Lines 329-334: the schema updates are applied; a failure is written into
\* the result.
set_visual_recipe_payload_apply ==
    /\ tool_pc = "apply"
    /\ \E remote_ok \in BOOLEAN :
         /\ tool_log' = Append(tool_log,
                               SdkCall("apply", tool_client, remote_ok))
         /\ tool_result' =
              IF remote_ok
              THEN PayloadUpdated(tool_local.recipe_type, Some(TRUE), None)
              ELSE PayloadUpdated(tool_local.recipe_type, None,
                                  Some("apply failed"))
    /\ tool_pc' = "done"
    /\ UNCHANGED <<tool_args, tool_client, tool_local, dss, last_payload>>

\* Another caller's save of the same recipe (lines 314-315 of its own
\* invocation) lands on the platform.
concurrent_save(payload) ==
    /\ dss.recipe_type \notin CODE_RECIPE_TYPES
    /\ dss' = [dss EXCEPT !.str_payload = Dumps(payload)]
    /\ last_payload' = None
    /\ UNCHANGED <<tool_pc, tool_args, tool_client, tool_local, tool_log,
                   tool_result>>

(***************************************************************************)
(* set_code_recipe_code (recipe.py, lines 246-280).                        *)
(***************************************************************************)
ScriptArgs == {"", "print(2)"}

\* Lines 260-262: the handles are built.
set_code_recipe_code(header, code) ==
    /\ tool_pc = "idle"
    /\ tool_args' = [tool |-> "set_code_recipe_code", header |-> header,
                     code |-> code]
    /\ LET c == get_impersonated_dss_client(header)
       IN  IF c.ok
           THEN /\ tool_client' = Some(c.api_key)
                /\ tool_result' = tool_result
                /\ tool_pc' = "get_settings"
           ELSE /\ tool_client' = tool_client
                /\ tool_result' = ToolFault(c.exception)
                /\ tool_pc' = "done"
    /\ UNCHANGED <<tool_local, tool_log, dss, last_payload>>

\* Variant: the code is put into the settings object whatever the type.
set_code_recipe_code_settings_NoGuard ==
    /\ tool_pc = "get_settings"
    /\ tool_args.tool = "set_code_recipe_code"
    /\ \E remote_ok \in BOOLEAN :
         /\ tool_log' = Append(tool_log,
                               SdkCall("get_settings", tool_client, remote_ok))
         /\ IF ~remote_ok
            THEN /\ tool_result' = ToolFault("DataikuException")
                 /\ tool_local' = tool_local
                 /\ tool_pc' = "done"
            ELSE /\ tool_result' = tool_result
                 /\ tool_local' = [recipe_type |-> dss.recipe_type,
                                   str_payload |-> tool_args.code]
                 /\ tool_pc' = "save_code"
    /\ UNCHANGED <<tool_args, tool_client, dss, last_payload>>

\* Lines 263-272: the settings are read, recipes that are not code recipes
\* are turned away, the code is put into the settings object.
set_code_recipe_code_settings ==
    /\ tool_pc = "get_settings"
    /\ tool_args.tool = "set_code_recipe_code"
    /\ \E remote_ok \in BOOLEAN :
         /\ tool_log' = Append(tool_log,
                               SdkCall("get_settings", tool_client, remote_ok))
         /\ IF ~remote_ok
            THEN /\ tool_result' = ToolFault("DataikuException")
                 /\ tool_local' = tool_local
                 /\ tool_pc' = "done"
            ELSE IF dss.recipe_type \notin CODE_RECIPE_TYPES
            THEN /\ tool_result' = [kind |-> "return",
                                    error |-> "not a code recipe"]
                 /\ tool_local' = tool_local
                 /\ tool_pc' = "done"
            ELSE /\ tool_result' = tool_result
                 /\ tool_local' = [recipe_type |-> dss.recipe_type,
                                   str_payload |-> tool_args.code]
                 /\ tool_pc' = "save_code"
    /\ UNCHANGED <<tool_args, tool_client, dss, last_payload>>

\* Lines 273-280: the settings are saved and the result dict is returned.
set_code_recipe_code_save ==
    /\ tool_pc = "save_code"
    /\ \E remote_ok \in BOOLEAN :
         /\ tool_log' = Append(tool_log,
                               SdkCall("save", tool_client, remote_ok))
         /\ IF remote_ok
            THEN /\ dss' = [dss EXCEPT !.str_payload = tool_local.str_payload]
                 /\ tool_result' = [kind |-> "return", success |-> TRUE,
                                    recipe_type |-> tool_local.recipe_type]
            ELSE /\ dss' = dss
                 /\ tool_result' = ToolFault("DataikuException")
    /\ tool_pc' = "done"
    /\ UNCHANGED <<tool_args, tool_client, tool_local, last_payload>>

(***************************************************************************)
(* run_recipe (recipe.py, lines 342-372).  recipe.run(wait, no_fail=True)  *)
(* starts a job on the platform and, when wait is true, polls the job's    *)
(* status until it reads DONE, ABORTED or FAILED; with no_fail it does not *)
(* raise on ABORTED or FAILED.                                             *)
(***************************************************************************)
JobTypes ==
    {"NON_RECURSIVE_FORCED_BUILD", "RECURSIVE_BUILD", "RECURSIVE_FORCED_BUILD"}
FinishedStates == {"DONE", "ABORTED", "FAILED"}

\* The states a job of the platform moves through; a job that was just
\* started carries no state yet.
JobSuccessors(state) ==
    IF state = None THEN {"NOT_STARTED", "RUNNING"}
    ELSE IF state = Some("NOT_STARTED") THEN {"RUNNING", "ABORTED"}
    ELSE IF state = Some("RUNNING") THEN FinishedStates
    ELSE {}

\* job.get_status().get("baseStatus", {}).get("state", default)
StateOr(job, default) == IF job.state = None THEN default ELSE job.state[1]

\* Lines 363-365: the handles are built.
run_recipe(header, job_type, wait) ==
    /\ tool_pc = "idle"
    /\ tool_args' = [tool |-> "run_recipe", header |-> header,
                     project_key |-> "PROJ", recipe_name |-> "my_recipe",
                     job_type |-> job_type, wait |-> wait]
    /\ LET c == get_impersonated_dss_client(header)
       IN  IF c.ok
           THEN /\ tool_client' = Some(c.api_key)
                /\ tool_result' = tool_result
                /\ tool_pc' = "run"
           ELSE /\ tool_client' = tool_client
                /\ tool_result' = ToolFault(c.exception)
                /\ tool_pc' = "done"
    /\ UNCHANGED <<tool_local, tool_log, dss>>

\* Line 366, first half: recipe.run builds the job definition and starts
\* the job; without wait it returns the job at once.
run_recipe_start ==
    /\ tool_pc = "run"
    /\ \E remote_ok \in BOOLEAN :
         IF remote_ok
         THEN /\ dss' = [dss EXCEPT !.job = [id |-> "job-1", state |-> None]]
              /\ tool_local' = [job |-> "job-1"]
              /\ tool_result' = tool_result
              /\ IF tool_args.wait
                 THEN /\ tool_log' = tool_log
                      /\ tool_pc' = "waiting"
                 ELSE /\ tool_log' = Append(tool_log,
                                            SdkCall("run", tool_client, TRUE))
                      /\ tool_pc' = "get_status"
         ELSE /\ dss' = dss
              /\ tool_local' = tool_local
              /\ tool_log' = Append(tool_log,
                                    SdkCall("run", tool_client, FALSE))
              /\ tool_result' = ToolFault("DataikuException")
              /\ tool_pc' = "done"
    /\ UNCHANGED <<tool_args, tool_client>>

\* Variant: the first poll ends the wait whatever it reads.
run_recipe_wait_FirstPoll ==
    /\ tool_pc = "waiting"
    /\ \E remote_ok \in BOOLEAN :
         /\ tool_log' = Append(tool_log,
                               SdkCall("run", tool_client, remote_ok))
         /\ IF remote_ok
            THEN /\ tool_result' = tool_result
                 /\ tool_pc' = "get_status"
            ELSE /\ tool_result' = ToolFault("DataikuException")
                 /\ tool_pc' = "done"
    /\ UNCHANGED <<tool_args, tool_client, tool_local, dss>>

\* Line 366, second half, wait = True: a poll of the job's status ends the
\* wait when it reads a finished state, or fails; any other poll is
\* followed by another poll.
run_recipe_wait ==
    /\ tool_pc = "waiting"
    /\ \E remote_ok \in BOOLEAN :
         /\ remote_ok => StateOr(dss.job, "") \in FinishedStates
         /\ tool_log' = Append(tool_log,
                               SdkCall("run", tool_client, remote_ok))
         /\ IF remote_ok
            THEN /\ tool_result' = tool_result
                 /\ tool_pc' = "get_status"
            ELSE /\ tool_result' = ToolFault("DataikuException")
                 /\ tool_pc' = "done"
    /\ UNCHANGED <<tool_args, tool_client, tool_local, dss>>

\* Lines 367-372: the status is read and the result dict is built.
run_recipe_status ==
    /\ tool_pc = "get_status"
    /\ \E remote_ok \in BOOLEAN :
         /\ tool_log' = Append(tool_log,
                               SdkCall("get_status", tool_client, remote_ok))
         /\ tool_result' =
              IF remote_ok
              THEN [kind |-> "return",
                    job_id |-> tool_local.job,
                    project_key |-> tool_args.project_key,
                    recipe_name |-> tool_args.recipe_name,
                    status |-> StateOr(dss.job, "UNKNOWN")]
              ELSE ToolFault("DataikuException")
    /\ tool_pc' = "done"
    /\ UNCHANGED <<tool_args, tool_client, tool_local, dss>>

\* The platform runs the job.
job_progress ==
    /\ dss.job.id # ""
    /\ \E state \in JobSuccessors(dss.job.state) :
         dss' = [dss EXCEPT !.job.state = Some(state)]
    /\ UNCHANGED <<tool_pc, tool_args, tool_client, tool_local, tool_log,
                   tool_result>>

(***************************************************************************)
(* get_auth_info and _is_user_an_admin (dssclient.py, lines 253-271 and    *)
(* 304-322), invoked by callers whose requests are served concurrently.    *)
(* Each request is served in its own context, and get_http_request()       *)
(* returns the request of the context it is called in.                     *)
(***************************************************************************)
\* The bearer token of each caller.
TokenOf == [c \in Callers |-> IF c = "caller1" THEN "key1" ELSE "key2"]

\* The authorization headers a caller's request may carry.
CallerHeaders(c) ==
    {h \in Headers : ~h.present \/ Len(h.words) < 2}
        \cup {[present |-> TRUE, words |-> <<"Bearer", TokenOf[c]>>]}

\* Variant: the request is kept in one process-wide place, which holds the
\* request of the first caller.
get_http_request_Shared(c) == auth_header["caller1"]

\* get_http_request() in the context of caller c (utils.py, line 8).
get_http_request(c) == auth_header[c]

\* How the platform answers the connection listing.
ProbeOutcomes == {"ok", "DataikuException", "ConnectionError"}

\* A remote call of a caller's invocation.
CallerCall(c, op, api_key, ok) ==
    [caller |-> c, op |-> op, key |-> api_key, ok |-> ok]

\* The request of a caller reaches the server.
auth_request(c, header) ==
    /\ auth_pc[c] = "idle"
    /\ auth_pc' = [auth_pc EXCEPT ![c] = "resolve"]
    /\ auth_header' = [auth_header EXCEPT ![c] = header]
    /\ UNCHANGED <<auth_client, auth_info, auth_result, auth_log>>

\* Line 318: the client of the invocation.
get_auth_info(c) ==
    /\ auth_pc[c] = "resolve"
    /\ LET r == get_impersonated_dss_client(get_http_request(c))
       IN  IF r.ok
           THEN /\ auth_client' = [auth_client EXCEPT ![c] = Some(r.api_key)]
                /\ auth_result' = auth_result
                /\ auth_pc' = [auth_pc EXCEPT ![c] = "get_auth_info"]
           ELSE /\ auth_client' = auth_client
                /\ auth_result' =
                     [auth_result EXCEPT ![c] = ToolFault(r.exception)]
                /\ auth_pc' = [auth_pc EXCEPT ![c] = "done"]
    /\ UNCHANGED <<auth_header, auth_info, auth_log>>

\* Line 319: the caller's auth info.
get_auth_info_read(c) ==
    /\ auth_pc[c] = "get_auth_info"
    /\ \E remote_ok \in BOOLEAN :
         /\ auth_log' = Append(auth_log,
                               CallerCall(c, "get_auth_info",
                                          auth_client[c][1], remote_ok))
         /\ IF remote_ok
            THEN /\ auth_info' =
                      [auth_info EXCEPT ![c] =
                          Some(AuthIdentifier(auth_client[c]))]
                 /\ auth_result' = auth_result
                 /\ auth_pc' = [auth_pc EXCEPT ![c] = "is_admin"]
            ELSE /\ auth_info' = auth_info
                 /\ auth_result' =
                      [auth_result EXCEPT ![c] = ToolFault("DataikuException")]
                 /\ auth_pc' = [auth_pc EXCEPT ![c] = "done"]
    /\ UNCHANGED <<auth_header, auth_client>>

\* The result of get_auth_info (lines 319-322).
AuthInfoResult(identifier, is_admin) ==
    [kind |-> "return", authIdentifier |-> identifier, isAdmin |-> is_admin]

\* Variant: every failure of the probe leaves the handler.
_is_user_an_admin_Raise(c) ==
    /\ auth_pc[c] = "is_admin"
    /\ LET r == get_impersonated_dss_client(get_http_request(c))
       IN  IF r.ok
           THEN \E outcome \in ProbeOutcomes :
                  /\ auth_log' = Append(auth_log,
                                        CallerCall(c, "list_connections",
                                                   r.api_key, outcome = "ok"))
                  /\ auth_result' =
                       [auth_result EXCEPT ![c] =
                           IF outcome = "ok"
                           THEN AuthInfoResult(auth_info[c][1], TRUE)
                           ELSE ToolFault(outcome)]
           ELSE /\ auth_log' = auth_log
                /\ auth_result' =
                     [auth_result EXCEPT ![c] = ToolFault(r.exception)]
    /\ auth_pc' = [auth_pc EXCEPT ![c] = "done"]
    /\ UNCHANGED <<auth_header, auth_client, auth_info>>

\* Lines 264-271 and 320-322: a second client is built, the connections are
\* listed through it, and the outcome becomes isAdmin; only a
\* DataikuException is caught.
_is_user_an_admin(c) ==
    /\ auth_pc[c] = "is_admin"
    /\ LET r == get_impersonated_dss_client(get_http_request(c))
       IN  IF r.ok
           THEN \E outcome \in ProbeOutcomes :
                  /\ auth_log' = Append(auth_log,
                                        CallerCall(c, "list_connections",
                                                   r.api_key, outcome = "ok"))
                  /\ auth_result' =
                       [auth_result EXCEPT ![c] =
                           IF outcome = "ok"
                           THEN AuthInfoResult(auth_info[c][1], TRUE)
                           ELSE IF outcome = "DataikuException"
                           THEN AuthInfoResult(auth_info[c][1], FALSE)
                           ELSE ToolFault(outcome)]
           ELSE /\ auth_log' = auth_log
                /\ auth_result' =
                     [auth_result EXCEPT ![c] = ToolFault(r.exception)]
    /\ auth_pc' = [auth_pc EXCEPT ![c] = "done"]
    /\ UNCHANGED <<auth_header, auth_client, auth_info>>

\* The invocation of a caller is over; nothing of it is kept.
AuthReturn(c) ==
    /\ auth_pc[c] = "done"
    /\ auth_pc' = [auth_pc EXCEPT ![c] = "idle"]
    /\ auth_header' =
         [auth_header EXCEPT ![c] = [present |-> FALSE, words |-> <<>>]]
    /\ auth_client' = [auth_client EXCEPT ![c] = None]
    /\ auth_info' = [auth_info EXCEPT ![c] = None]
    /\ auth_result' = [auth_result EXCEPT ![c] = NoToolResult]
    /\ auth_log' = SelectSeq(auth_log, LAMBDA call : call.caller # c)

(***************************************************************************)
(* get_general_settings and set_general_settings (dssclient.py, lines      *)
(* 533-610), invoked by callers whose requests are served concurrently.    *)
(* client.get_general_settings() fetches the whole settings object of the  *)
(* instance; its save() sends the whole object back.                       *)
(***************************************************************************)
\* The keys the requests name and the instance holds: two allowed ones and
\* one outside the list.
SettingKeys == {"sparkSettings", "security", "ldapSettings"}

SettingValues == {"on", "off"}

\* The settings argument of set_general_settings: a dict from key to value.
SettingsArgs == UNION {[K -> SettingValues] : K \in SUBSET SettingKeys}

\* A settings_keys list has no more entries than this.
MaxKeys == 2

\* The settings_keys argument of get_general_settings: None, or a list.
SettingsKeysArgs == {None} \cup {Some(keys) : keys \in SeqsUpTo(SettingKeys, MaxKeys)}

\* invalid_keys of lines 556-558, over a list of keys.
invalid_keys(keys, allowed) ==
    SelectSeq(keys, LAMBDA key : key \notin Range(allowed))

\* The error result of lines 560-562 and 593-595: it names the invalid keys
\* and the allowed ones.
InvalidKeysError(invalid, allowed) ==
    [kind |-> "return", error |-> "Invalid settings keys",
     invalid_keys |-> invalid, allowed_keys |-> allowed]

\* Variant: the settings object is replaced by the supplied dict.
UpdateSettings_Replace(current, settings) == settings

\* Lines 601-602: general_settings.settings[key] = value for every item.
UpdateSettings(current, settings) ==
    [key \in DOMAIN current \cup DOMAIN settings |->
        IF key \in DOMAIN settings THEN settings[key] ELSE current[key]]

\* Variant: every requested key the instance holds is returned.
SelectSettings_Unchecked(all_settings, settings_keys, allowed) ==
    [kind |-> "return",
     value |-> [key \in Range(settings_keys) \cap DOMAIN all_settings |->
                   all_settings[key]]]

\* Lines 556-565: the requested keys are validated and the settings are
\* restricted to them.
SelectSettings(all_settings, settings_keys, allowed) ==
    IF invalid_keys(settings_keys, allowed) # <<>>
    THEN InvalidKeysError(Range(invalid_keys(settings_keys, allowed)), allowed)
    ELSE [kind |-> "return",
          value |-> [key \in Range(settings_keys) \cap DOMAIN all_settings |->
                        all_settings[key]]]

\* Line 547: the client of the invocation.
get_general_settings(c, header, settings_keys) ==
    /\ auth_pc[c] = "idle"
    /\ settings_args' =
         [settings_args EXCEPT ![c] =
             [tool |-> "get_general_settings", settings_keys |-> settings_keys]]
    /\ auth_header' = [auth_header EXCEPT ![c] = header]
    /\ LET r == get_impersonated_dss_client(header)
       IN  IF r.ok
           THEN /\ auth_client' = [auth_client EXCEPT ![c] = Some(r.api_key)]
                /\ auth_result' = auth_result
                /\ auth_pc' = [auth_pc EXCEPT ![c] = "get_raw"]
           ELSE /\ auth_client' = auth_client
                /\ auth_result' =
                     [auth_result EXCEPT ![c] = ToolFault(r.exception)]
                /\ auth_pc' = [auth_pc EXCEPT ![c] = "done"]
    /\ UNCHANGED <<auth_info, auth_log, general_settings, dss, module_state>>

\* Variant: the default list is the module's own list, and the handler
\* drops its last entry.
get_general_settings_read_Pop(c) ==
    /\ auth_pc[c] = "get_raw"
    /\ settings_args[c].tool = "get_general_settings"
    /\ \E remote_ok \in BOOLEAN :
         /\ auth_log' = Append(auth_log,
                               CallerCall(c, "get_general_settings",
                                          auth_client[c][1], remote_ok))
         /\ IF remote_ok
            THEN LET allowed == module_state.ALLOWED_GENERAL_SETTINGS_KEYS
                     settings_keys ==
                         IF settings_args[c].settings_keys = None
                         THEN allowed
                         ELSE settings_args[c].settings_keys[1]
                 IN  /\ general_settings' =
                          [general_settings EXCEPT
                              ![c] = Some(dss.general_settings)]
                     /\ auth_result' =
                          [auth_result EXCEPT
                              ![c] = SelectSettings(dss.general_settings,
                                                    settings_keys, allowed)]
                     /\ module_state' =
                          IF settings_args[c].settings_keys = None
                             /\ Len(allowed) > 0
                          THEN [module_state EXCEPT
                                   !.ALLOWED_GENERAL_SETTINGS_KEYS =
                                       SubSeq(allowed, 1, Len(allowed) - 1)]
                          ELSE module_state
            ELSE /\ general_settings' = general_settings
                 /\ auth_result' =
                      [auth_result EXCEPT ![c] = ToolFault("DataikuException")]
                 /\ module_state' = module_state
    /\ auth_pc' = [auth_pc EXCEPT ![c] = "done"]
    /\ UNCHANGED <<auth_header, auth_client, auth_info, settings_args, dss>>

\* Lines 548-565: the settings object is fetched, the default list is taken
\* when no keys were given, the keys are validated, the settings are
\* restricted to them.
get_general_settings_read(c) ==
    /\ auth_pc[c] = "get_raw"
    /\ settings_args[c].tool = "get_general_settings"
    /\ \E remote_ok \in BOOLEAN :
         /\ auth_log' = Append(auth_log,
                               CallerCall(c, "get_general_settings",
                                          auth_client[c][1], remote_ok))
         /\ IF remote_ok
            THEN LET allowed == module_state.ALLOWED_GENERAL_SETTINGS_KEYS
                     settings_keys ==
                         IF settings_args[c].settings_keys = None
                         THEN allowed
                         ELSE settings_args[c].settings_keys[1]
                 IN  /\ general_settings' =
                          [general_settings EXCEPT
                              ![c] = Some(dss.general_settings)]
                     /\ auth_result' =
                          [auth_result EXCEPT
                              ![c] = SelectSettings(dss.general_settings,
                                                    settings_keys, allowed)]
            ELSE /\ general_settings' = general_settings
                 /\ auth_result' =
                      [auth_result EXCEPT ![c] = ToolFault("DataikuException")]
    /\ auth_pc' = [auth_pc EXCEPT ![c] = "done"]
    /\ UNCHANGED <<auth_header, auth_client, auth_info, settings_args, dss,
                   module_state>>

\* Lines 586-596: the client of the invocation, then the keys of the dict
\* are validated.  `before` keeps the instance's settings at the time of the
\* call.
set_general_settings(c, header, settings) ==
    /\ auth_pc[c] = "idle"
    /\ settings_args' =
         [settings_args EXCEPT ![c] =
             [tool |-> "set_general_settings", settings |-> settings,
              before |-> dss.general_settings]]
    /\ auth_header' = [auth_header EXCEPT ![c] = header]
    /\ LET r == get_impersonated_dss_client(header)
           allowed == module_state.ALLOWED_GENERAL_SETTINGS_KEYS
           invalid == {key \in DOMAIN settings : key \notin Range(allowed)}
       IN  IF ~r.ok
           THEN /\ auth_client' = auth_client
                /\ auth_result' =
                     [auth_result EXCEPT ![c] = ToolFault(r.exception)]
                /\ auth_pc' = [auth_pc EXCEPT ![c] = "done"]
           ELSE IF invalid # {}
           THEN /\ auth_client' = [auth_client EXCEPT ![c] = Some(r.api_key)]
                /\ auth_result' =
                     [auth_result EXCEPT
                         ![c] = InvalidKeysError(invalid, allowed)]
                /\ auth_pc' = [auth_pc EXCEPT ![c] = "done"]
           ELSE /\ auth_client' = [auth_client EXCEPT ![c] = Some(r.api_key)]
                /\ auth_result' = auth_result
                /\ auth_pc' = [auth_pc EXCEPT ![c] = "get_general_settings"]
    /\ UNCHANGED <<auth_info, auth_log, general_settings, dss, module_state>>

\* Lines 598-602: the settings object is fetched and the provided keys are
\* written into it.
set_general_settings_read(c) ==
    /\ auth_pc[c] = "get_general_settings"
    /\ settings_args[c].tool = "set_general_settings"
    /\ \E remote_ok \in BOOLEAN :
         /\ auth_log' = Append(auth_log,
                               CallerCall(c, "get_general_settings",
                                          auth_client[c][1], remote_ok))
         /\ IF remote_ok
            THEN /\ general_settings' =
                      [general_settings EXCEPT
                          ![c] = Some(UpdateSettings(dss.general_settings,
                                                     settings_args[c].settings))]
                 /\ auth_result' = auth_result
                 /\ auth_pc' = [auth_pc EXCEPT ![c] = "save"]
            ELSE /\ general_settings' = general_settings
                 /\ auth_result' =
                      [auth_result EXCEPT ![c] = ToolFault("DataikuException")]
                 /\ auth_pc' = [auth_pc EXCEPT ![c] = "done"]
    /\ UNCHANGED <<auth_header, auth_client, auth_info, settings_args, dss,
                   module_state>>

\* Lines 605-610: the settings object is sent back to the instance and the
\* success dict is returned.
set_general_settings_save(c) ==
    /\ auth_pc[c] = "save"
    /\ settings_args[c].tool = "set_general_settings"
    /\ \E remote_ok \in BOOLEAN :
         /\ auth_log' = Append(auth_log,
                               CallerCall(c, "save", auth_client[c][1],
                                          remote_ok))
         /\ IF remote_ok
            THEN /\ dss' = [dss EXCEPT
                              !.general_settings = general_settings[c][1]]
                 /\ auth_result' =
                      [auth_result EXCEPT
                          ![c] = [kind |-> "return",
                                  message |-> "General settings updated successfully",
                                  updatedKeys |->
                                      DOMAIN settings_args[c].settings]]
            ELSE /\ dss' = dss
                 /\ auth_result' =
                      [auth_result EXCEPT ![c] = ToolFault("DataikuException")]
    /\ auth_pc' = [auth_pc EXCEPT ![c] = "done"]
    /\ UNCHANGED <<auth_header, auth_client, auth_info, settings_args,
                   general_settings, module_state>>

\* The invocation of a caller is over; nothing of it is kept.
SettingsReturn(c) ==
    /\ auth_pc[c] = "done"
    /\ settings_args[c].tool \in {"get_general_settings", "set_general_settings"}
    /\ auth_pc' = [auth_pc EXCEPT ![c] = "idle"]
    /\ auth_header' =
         [auth_header EXCEPT ![c] = [present |-> FALSE, words |-> <<>>]]
    /\ auth_client' = [auth_client EXCEPT ![c] = None]
    /\ auth_result' = [auth_result EXCEPT ![c] = NoToolResult]
    /\ auth_log' = SelectSeq(auth_log, LAMBDA call : call.caller # c)
    /\ settings_args' = [settings_args EXCEPT ![c] = NoArgs]
    /\ general_settings' = [general_settings EXCEPT ![c] = None]
    /\ UNCHANGED <<auth_info, dss, module_state>>

(***************************************************************************)
(* create_managed_dataset as an invocation of its own (dataset.py, lines   *)
(* 9-49).                                                                  *)
(***************************************************************************)
\* Lines 38-41: the handles and the builder.
create_managed_dataset_invoke(header, dataset_name, overwrite) ==
    /\ tool_pc = "idle"
    /\ tool_args' = [tool |-> "create_managed_dataset", header |-> header,
                     dataset_name |-> dataset_name, overwrite |-> overwrite]
    /\ LET c == get_impersonated_dss_client(header)
       IN  IF c.ok
           THEN /\ tool_client' = Some(c.api_key)
                /\ tool_result' = tool_result
                /\ tool_pc' = "create_dataset"
           ELSE /\ tool_client' = tool_client
                /\ tool_result' = ToolFault(c.exception)
                /\ tool_pc' = "done"
    /\ UNCHANGED <<tool_local, tool_log, dss, catalog>>

\* Variant: the handler reports success whatever create() did.
create_managed_dataset_create_Swallow ==
    /\ tool_pc = "create_dataset"
    /\ \E permitted \in BOOLEAN :
         LET remote_ok ==
                 permitted /\ (tool_args.dataset_name \notin catalog
                                  \/ tool_args.overwrite)
         IN  /\ tool_log' = Append(tool_log,
                                   SdkRequest("create", tool_client, remote_ok,
                                              tool_args.dataset_name))
             /\ catalog' = IF remote_ok
                           THEN catalog \cup {tool_args.dataset_name}
                           ELSE catalog
             /\ tool_result' =
                  [kind |-> "return", success |-> TRUE,
                   dataset_name |-> tool_args.dataset_name]
    /\ tool_pc' = "done"
    /\ UNCHANGED <<tool_args, tool_client, tool_local, dss>>

\* Lines 42-49: create() is issued once; the platform refuses a name it
\* already has unless overwrite is set, and may refuse for other reasons.
create_managed_dataset_create ==
    /\ tool_pc = "create_dataset"
    /\ \E permitted \in BOOLEAN :
         LET remote_ok ==
                 permitted /\ (tool_args.dataset_name \notin catalog
                                  \/ tool_args.overwrite)
         IN  /\ tool_log' = Append(tool_log,
                                   SdkRequest("create", tool_client, remote_ok,
                                              tool_args.dataset_name))
             /\ catalog' = IF remote_ok
                           THEN catalog \cup {tool_args.dataset_name}
                           ELSE catalog
             /\ tool_result' =
                  IF remote_ok
                  THEN [kind |-> "return", success |-> TRUE,
                        dataset_name |-> tool_args.dataset_name]
                  ELSE ToolFault("DataikuException")
    /\ tool_pc' = "done"
    /\ UNCHANGED <<tool_args, tool_client, tool_local, dss>>

(***************************************************************************)
(* The specification of the tools: one invocation at a time against a      *)
(* platform whose state is chosen initially.                               *)
(***************************************************************************)
\* The platform states the tools are run against; each tool reads and
\* writes its own part of the platform.
DatasetStates ==
    {[DssAtRest EXCEPT !.source_size = n, !.columns = c] :
        n \in SourceSizes, c \in ColumnLists}

\* No create_recipe invocation is in progress.
RecipeIdle ==
    /\ pc = "idle"
    /\ request = NoRequest
    /\ client = None
    /\ existing_datasets = None
    /\ calls = <<>>
    /\ create_request = None
    /\ result = NoResult
    /\ catalog = {}

InitSample ==
    /\ RecipeIdle
    /\ ToolsIdle
    /\ dss \in DatasetStates
    /\ AuthIdle
    /\ SettingsIdle
    /\ ModuleLoaded
    /\ last_payload = None

NextSample ==
    \/ /\ tool_pc = "idle"
       /\ \E header \in Headers, num_rows \in NumRowsArgs :
            get_dataset_sample(header, num_rows)
       /\ UNCHANGED <<recipe_vars, auth_vars, last_payload, settings_vars,
                 module_state>>
    \/ get_dataset_sample_schema /\ UNCHANGED <<recipe_vars, auth_vars, last_payload, settings_vars,
                 module_state>>
    \/ get_dataset_sample_row /\ UNCHANGED <<recipe_vars, auth_vars, last_payload, settings_vars,
                 module_state>>
    \/ get_dataset_sample_return /\ UNCHANGED <<recipe_vars, auth_vars, last_payload, settings_vars,
                 module_state>>
    \/ ToolReturn /\ UNCHANGED <<recipe_vars, auth_vars, last_payload, settings_vars,
                 module_state>>

SpecSample == InitSample /\ [][NextSample]_vars

\* Datasets whose row iterator never ends, besides the finite ones.
StreamStates ==
    DatasetStates
        \cup {[DssAtRest EXCEPT !.endless = TRUE, !.columns = c] :
                 c \in ColumnLists}

InitStream ==
    /\ RecipeIdle
    /\ ToolsIdle
    /\ dss \in StreamStates
    /\ AuthIdle
    /\ SettingsIdle
    /\ ModuleLoaded
    /\ last_payload = None

\* The steps of a get_dataset_sample invocation after its first.
get_dataset_sample_steps ==
    /\ \/ get_dataset_sample_schema
       \/ get_dataset_sample_row
       \/ get_dataset_sample_return
    /\ UNCHANGED <<recipe_vars, auth_vars, last_payload, settings_vars,
                 module_state>>

\* The interpreter runs a started handler on: a handler step that can be
\* taken is eventually taken.
SpecStream ==
    InitStream /\ [][NextSample]_vars /\ WF_vars(get_dataset_sample_steps)

\* The projects the platform holds before a call.
ProjectStates ==
    {[DssAtRest EXCEPT !.project_keys = k] : k \in {{}, {"A7"}}}

InitProject ==
    /\ RecipeIdle
    /\ ToolsIdle
    /\ dss \in ProjectStates
    /\ AuthIdle
    /\ SettingsIdle
    /\ ModuleLoaded
    /\ last_payload = None

\* The platform holds no more projects than this.
MaxProjects == 2

NextProject ==
    \/ /\ tool_pc = "idle"
       /\ Cardinality(dss.project_keys) < MaxProjects
       /\ \E header \in Headers, project_name \in ProjectNames,
             owner \in OwnerArgs, project_key \in ProjectKeyArgs :
            create_project(header, project_name, owner, project_key)
       /\ UNCHANGED <<recipe_vars, auth_vars, last_payload, settings_vars,
                 module_state>>
    \/ create_project_auth_info /\ UNCHANGED <<recipe_vars, auth_vars, last_payload, settings_vars,
                 module_state>>
    \/ create_project_create /\ UNCHANGED <<recipe_vars, auth_vars, last_payload, settings_vars,
                 module_state>>
    \/ ToolReturn /\ UNCHANGED <<recipe_vars, auth_vars, last_payload, settings_vars,
                 module_state>>

SpecProject == InitProject /\ [][NextProject]_vars

\* The recipe the tools are pointed at, as the platform holds it.
RecipeStates ==
    {[DssAtRest EXCEPT !.recipe_type = t,
                       !.str_payload = IF t \in CODE_RECIPE_TYPES
                                       THEN ScriptText ELSE Dumps(p)] :
        t \in ExistingRecipeTypes, p \in Payloads}

InitPayload ==
    /\ RecipeIdle
    /\ ToolsIdle
    /\ dss \in RecipeStates
    /\ AuthIdle
    /\ SettingsIdle
    /\ ModuleLoaded
    /\ last_payload = None

NextPayload ==
    \/ /\ tool_pc = "idle"
       /\ \E header \in Headers : get_recipe_settings(header)
       /\ UNCHANGED <<recipe_vars, auth_vars, settings_vars, module_state>>
    \/ get_recipe_settings_read /\ UNCHANGED <<recipe_vars, auth_vars, settings_vars, module_state>>
    \/ /\ tool_pc = "idle"
       /\ \E header \in Headers, payload \in Payloads :
            set_visual_recipe_payload(header, payload)
       /\ UNCHANGED <<recipe_vars, auth_vars, settings_vars, module_state>>
    \/ set_visual_recipe_payload_settings /\ UNCHANGED <<recipe_vars, auth_vars, settings_vars, module_state>>
    \/ set_visual_recipe_payload_save /\ UNCHANGED <<recipe_vars, auth_vars, settings_vars, module_state>>
    \/ set_visual_recipe_payload_compute /\ UNCHANGED <<recipe_vars, auth_vars, settings_vars, module_state>>
    \/ set_visual_recipe_payload_apply /\ UNCHANGED <<recipe_vars, auth_vars, settings_vars, module_state>>
    \/ /\ \E payload \in Payloads : concurrent_save(payload)
       /\ UNCHANGED <<recipe_vars, auth_vars, settings_vars, module_state>>
    \/ ToolReturn /\ UNCHANGED <<recipe_vars, auth_vars, last_payload, settings_vars,
                 module_state>>

SpecPayload == InitPayload /\ [][NextPayload]_vars

\* The recipes a setter can meet: visual ones, code ones, and a definition
\* that carries no type.
SetterStates ==
    RecipeStates
        \cup {[DssAtRest EXCEPT !.recipe_type = t, !.str_payload = ScriptText] :
                 t \in {"sql_script", "r"}}
        \cup {[DssAtRest EXCEPT !.recipe_type = ""]}

InitSetters ==
    /\ RecipeIdle
    /\ ToolsIdle
    /\ dss \in SetterStates
    /\ AuthIdle
    /\ SettingsIdle
    /\ ModuleLoaded
    /\ last_payload = None

NextSetters ==
    \/ /\ tool_pc = "idle"
       /\ \E header \in Headers, code \in ScriptArgs :
            set_code_recipe_code(header, code)
       /\ UNCHANGED <<recipe_vars, auth_vars, settings_vars, module_state>>
    \/ set_code_recipe_code_settings /\ UNCHANGED <<recipe_vars, auth_vars, settings_vars, module_state>>
    \/ set_code_recipe_code_save /\ UNCHANGED <<recipe_vars, auth_vars, settings_vars, module_state>>
    \/ /\ tool_pc = "idle"
       /\ \E header \in Headers, payload \in Payloads :
            set_visual_recipe_payload(header, payload)
       /\ UNCHANGED <<recipe_vars, auth_vars, settings_vars, module_state>>
    \/ set_visual_recipe_payload_settings /\ UNCHANGED <<recipe_vars, auth_vars, settings_vars, module_state>>
    \/ set_visual_recipe_payload_save /\ UNCHANGED <<recipe_vars, auth_vars, settings_vars, module_state>>
    \/ set_visual_recipe_payload_compute /\ UNCHANGED <<recipe_vars, auth_vars, settings_vars, module_state>>
    \/ set_visual_recipe_payload_apply /\ UNCHANGED <<recipe_vars, auth_vars, settings_vars, module_state>>
    \/ ToolReturn /\ UNCHANGED <<recipe_vars, auth_vars, last_payload, settings_vars,
                 module_state>>

SpecSetters == InitSetters /\ [][NextSetters]_vars

InitRun ==
    /\ RecipeIdle
    /\ ToolsIdle
    /\ dss = DssAtRest
    /\ AuthIdle
    /\ SettingsIdle
    /\ ModuleLoaded
    /\ last_payload = None

NextRun ==
    \/ /\ tool_pc = "idle"
       /\ \E header \in Headers, job_type \in JobTypes, wait \in BOOLEAN :
            run_recipe(header, job_type, wait)
       /\ UNCHANGED <<recipe_vars, auth_vars, last_payload, settings_vars,
                 module_state>>
    \/ run_recipe_start /\ UNCHANGED <<recipe_vars, auth_vars, last_payload, settings_vars,
                 module_state>>
    \/ run_recipe_wait /\ UNCHANGED <<recipe_vars, auth_vars, last_payload, settings_vars,
                 module_state>>
    \/ run_recipe_status /\ UNCHANGED <<recipe_vars, auth_vars, last_payload, settings_vars,
                 module_state>>
    \/ job_progress /\ UNCHANGED <<recipe_vars, auth_vars, last_payload, settings_vars,
                 module_state>>
    \/ ToolReturn /\ UNCHANGED <<recipe_vars, auth_vars, last_payload, settings_vars,
                 module_state>>

SpecRun == InitRun /\ [][NextRun]_vars

InitAuth ==
    /\ RecipeIdle
    /\ ToolsIdle
    /\ dss = DssAtRest
    /\ AuthIdle
    /\ SettingsIdle
    /\ ModuleLoaded
    /\ last_payload = None

NextAuth ==
    \E c \in Callers :
        \/ /\ auth_pc[c] = "idle"
           /\ \E header \in CallerHeaders(c) : auth_request(c, header)
           /\ UNCHANGED <<recipe_vars, tool_vars, last_payload, settings_vars,
                 module_state>>
        \/ get_auth_info(c) /\ UNCHANGED <<recipe_vars, tool_vars, last_payload, settings_vars,
                 module_state>>
        \/ get_auth_info_read(c)
              /\ UNCHANGED <<recipe_vars, tool_vars, last_payload, settings_vars,
                 module_state>>
        \/ _is_user_an_admin(c)
              /\ UNCHANGED <<recipe_vars, tool_vars, last_payload, settings_vars,
                 module_state>>
        \/ AuthReturn(c) /\ UNCHANGED <<recipe_vars, tool_vars, last_payload, settings_vars,
                 module_state>>

SpecAuth == InitAuth /\ [][NextAuth]_vars

\* The general settings the instance holds before a call.
SettingsStates ==
    {[DssAtRest EXCEPT !.general_settings = [key \in K |-> "old"]] :
        K \in {SettingKeys, {"security", "ldapSettings"}}}

InitSettings ==
    /\ RecipeIdle
    /\ ToolsIdle
    /\ dss \in SettingsStates
    /\ AuthIdle
    /\ SettingsIdle
    /\ ModuleLoaded
    /\ last_payload = None

\* What an action of a settings invocation leaves alone.
settings_frame == <<recipe_vars, tool_pc, tool_args, tool_client, tool_local,
                    tool_log, tool_result, last_payload>>

\* No invocation of any caller is in progress.
CallersIdle == \A c \in Callers : auth_pc[c] = "idle"

\* One invocation at a time.
NextSettings ==
    \E c \in Callers :
        \/ /\ CallersIdle
           /\ \E header \in CallerHeaders(c), settings_keys \in SettingsKeysArgs :
                get_general_settings(c, header, settings_keys)
           /\ UNCHANGED settings_frame
        \/ get_general_settings_read(c) /\ UNCHANGED settings_frame
        \/ /\ CallersIdle
           /\ \E header \in CallerHeaders(c), settings \in SettingsArgs :
                set_general_settings(c, header, settings)
           /\ UNCHANGED settings_frame
        \/ set_general_settings_read(c) /\ UNCHANGED settings_frame
        \/ set_general_settings_save(c) /\ UNCHANGED settings_frame
        \/ SettingsReturn(c) /\ UNCHANGED settings_frame

SpecSettings == InitSettings /\ [][NextSettings]_vars

\* The requests of a caller when the callers' invocations overlap: each
\* caller writes its own allowed key, or a dict with a key outside the list.
RaceSettings(c) ==
    LET own == IF c = "caller1" THEN "sparkSettings" ELSE "security"
    IN  {[key \in {own} |-> "on"],
         [key \in {own, "ldapSettings"} |-> "on"]}

RaceSettingsKeys(c) ==
    {None, Some(<<"security">>), Some(<<"sparkSettings", "ldapSettings">>)}

RaceHeaders(c) ==
    {[present |-> FALSE, words |-> <<>>],
     [present |-> TRUE, words |-> <<"Bearer", TokenOf[c]>>]}

\* The callers' invocations interleave step by step.
NextSettingsRace ==
    \E c \in Callers :
        \/ /\ auth_pc[c] = "idle"
           /\ \E header \in RaceHeaders(c), settings_keys \in RaceSettingsKeys(c) :
                get_general_settings(c, header, settings_keys)
           /\ UNCHANGED settings_frame
        \/ get_general_settings_read(c) /\ UNCHANGED settings_frame
        \/ /\ auth_pc[c] = "idle"
           /\ \E header \in RaceHeaders(c), settings \in RaceSettings(c) :
                set_general_settings(c, header, settings)
           /\ UNCHANGED settings_frame
        \/ set_general_settings_read(c) /\ UNCHANGED settings_frame
        \/ set_general_settings_save(c) /\ UNCHANGED settings_frame
        \/ SettingsReturn(c) /\ UNCHANGED settings_frame

SpecSettingsRace == InitSettings /\ [][NextSettingsRace]_vars

(***************************************************************************)
(* All the handlers above, one invocation at a time, on small requests.    *)
(***************************************************************************)
AllIdle ==
    /\ pc = "idle"
    /\ tool_pc = "idle"
    /\ \A c \in Callers : auth_pc[c] = "idle"

InitHandlers ==
    /\ pc = "idle"
    /\ request = NoRequest
    /\ client = None
    /\ existing_datasets = None
    /\ calls = <<>>
    /\ create_request = None
    /\ result = NoResult
    /\ catalog = {"A", "C"}
    /\ ToolsIdle
    /\ dss = [DssAtRest EXCEPT !.source_size = MaxSmallRows,
                               !.columns = <<"id", "amount">>]
    /\ AuthIdle
    /\ SettingsIdle
    /\ ModuleLoaded
    /\ last_payload = None

\* What an action of the create_recipe invocation leaves alone.
recipe_frame == <<tool_vars, auth_vars, last_payload, settings_vars,
                 module_state>>
\* What an action of another tool's invocation leaves alone.
tool_frame == <<recipe_vars, auth_vars, last_payload, settings_vars,
                 module_state>>
\* The same, for the tools that write datasets or the recipe's payload.
dataset_frame == <<pc, request, client, existing_datasets, calls,
                   create_request, result, auth_vars, last_payload, settings_vars,
                 module_state>>
payload_frame == <<recipe_vars, auth_vars, settings_vars, module_state>>
\* What an action of the get_auth_info invocation leaves alone.
auth_frame == <<recipe_vars, tool_vars, last_payload, settings_vars,
                 module_state>>

NextHandlers ==
    \/ /\ AllIdle
       /\ \E recipe_type \in {"sync", "merge"}, inputs \in InputsArgs,
             outputs \in OutputsArgs :
            create_recipe(recipe_type, inputs, outputs, None, None)
       /\ UNCHANGED recipe_frame
    \/ create_recipe_client /\ UNCHANGED recipe_frame
    \/ create_recipe_list_datasets /\ UNCHANGED recipe_frame
    \/ create_recipe_create /\ UNCHANGED recipe_frame
    \/ Return /\ UNCHANGED recipe_frame
    \/ /\ AllIdle
       /\ \E header \in Headers, dataset_name \in DatasetNames,
             overwrite \in BOOLEAN :
            create_managed_dataset_invoke(header, dataset_name, overwrite)
       /\ UNCHANGED dataset_frame
    \/ create_managed_dataset_create /\ UNCHANGED dataset_frame
    \/ /\ AllIdle
       /\ \E header \in Headers, num_rows \in {0, MaxSmallRows + 1} :
            get_dataset_sample(header, num_rows)
       /\ UNCHANGED tool_frame
    \/ get_dataset_sample_schema /\ UNCHANGED tool_frame
    \/ get_dataset_sample_row /\ UNCHANGED tool_frame
    \/ get_dataset_sample_return /\ UNCHANGED tool_frame
    \/ /\ AllIdle
       /\ \E header \in Headers, owner \in OwnerArgs,
             project_key \in {None, Some("A7")} :
            create_project(header, <<"a">>, owner, project_key)
       /\ UNCHANGED tool_frame
    \/ create_project_auth_info /\ UNCHANGED tool_frame
    \/ create_project_create /\ UNCHANGED tool_frame
    \/ /\ AllIdle
       /\ \E header \in Headers : get_recipe_settings(header)
       /\ UNCHANGED payload_frame
    \/ get_recipe_settings_read /\ UNCHANGED payload_frame
    \/ /\ AllIdle
       /\ \E header \in Headers,
             payload \in {<<>>, <<<<"mode", JStr("LEFT")>>>>} :
            set_visual_recipe_payload(header, payload)
       /\ UNCHANGED payload_frame
    \/ set_visual_recipe_payload_settings /\ UNCHANGED payload_frame
    \/ set_visual_recipe_payload_save /\ UNCHANGED payload_frame
    \/ set_visual_recipe_payload_compute /\ UNCHANGED payload_frame
    \/ set_visual_recipe_payload_apply /\ UNCHANGED payload_frame
    \/ /\ AllIdle
       /\ \E header \in Headers, wait \in BOOLEAN :
            run_recipe(header, "NON_RECURSIVE_FORCED_BUILD", wait)
       /\ UNCHANGED tool_frame
    \/ run_recipe_start /\ UNCHANGED tool_frame
    \/ run_recipe_wait /\ UNCHANGED tool_frame
    \/ run_recipe_status /\ UNCHANGED tool_frame
    \/ job_progress /\ UNCHANGED tool_frame
    \/ ToolReturn /\ UNCHANGED tool_frame
    \/ /\ AllIdle
       /\ \E header \in CallerHeaders("caller1") :
            auth_request("caller1", header)
       /\ UNCHANGED auth_frame
    \/ get_auth_info("caller1") /\ UNCHANGED auth_frame
    \/ get_auth_info_read("caller1") /\ UNCHANGED auth_frame
    \/ _is_user_an_admin("caller1") /\ UNCHANGED auth_frame
    \/ AuthReturn("caller1") /\ UNCHANGED auth_frame

SpecHandlers == InitHandlers /\ [][NextHandlers]_vars

(***************************************************************************)
(* Claims about the other tools.                                           *)
(***************************************************************************)
MinOf(a, b) == IF a < b THEN a ELSE b
MaxOf(a, b) == IF a > b THEN a ELSE b

\* get_dataset_sample has returned its result dict.
Sampled ==
    /\ tool_args.tool = "get_dataset_sample"
    /\ tool_result.kind = "return"

\* C11: for every num_rows, get_dataset_sample reports
\* num_rows_requested = max(1, min(num_rows, 1000)): above 1000 it is 1000,
\* at 0 or below it is 1, and in 1..1000 it is num_rows itself.
C11_RequestedIsClamped ==
    Sampled =>
        LET n == tool_args.num_rows
            r == tool_result.num_rows_requested
        IN  /\ r = MaxOf(1, MinOf(n, 1000))
            /\ (n > 1000 => r = 1000)
            /\ (n <= 0 => r = 1)
            /\ (n \in 1..1000 => r = n)

C11_Witness ==
    /\ Sampled
    /\ tool_args.num_rows = 5000
    /\ tool_result.num_rows_requested = 1000

\* C12: num_rows_returned equals the length of rows and equals
\* min(num_rows_requested, number of rows the source yields); so it is at
\* most num_rows_requested and the result holds no more rows than the source.
C12_ReturnedIsMin ==
    Sampled =>
        /\ tool_result.num_rows_returned = Len(tool_result.rows)
        /\ tool_result.num_rows_returned =
               MinOf(tool_result.num_rows_requested, dss.source_size)
        /\ tool_result.num_rows_returned <= tool_result.num_rows_requested
        /\ Len(tool_result.rows) <= dss.source_size

C12_Witness ==
    /\ Sampled
    /\ dss.source_size > 0
    /\ tool_result.num_rows_requested > dss.source_size
    /\ tool_result.num_rows_returned = dss.source_size
    /\ Len(tool_result.rows) = dss.source_size

\* The calls of the invocation in progress that name the operation.
CallsOf(op) == {i \in 1..Len(tool_log) : tool_log[i].op = op}

\* The key sent by the create_project handler to the platform.
ProjectCreationSent ==
    /\ tool_args.tool = "create_project"
    /\ CallsOf("create_project") # {}

\* What a character of a name becomes: the uppercase form of a letter,
\* a digit itself, "_" for every other character.
KeyChar(ch) ==
    CASE ch = "a" -> "A" [] ch = "c" -> "C" [] ch = "e" -> "E"
      [] ch = "j" -> "J" [] ch = "o" -> "O" [] ch = "r" -> "R"
      [] ch = "t" -> "T" [] ch = "y" -> "Y" [] ch = "M" -> "M"
      [] ch = "P" -> "P" [] ch = "ß" -> "SS"
      [] ch = "1" -> "1" [] ch = "7" -> "7"
      [] OTHER -> "_"

\* The key a name is mapped to, character by character.
RECURSIVE KeyOf(_)
KeyOf(name) ==
    IF name = <<>> THEN "" ELSE KeyChar(Head(name)) \o KeyOf(Tail(name))

\* C13: the key generated from a name maps each letter to its uppercase
\* form, keeps each digit and turns every other character into "_"
\* ("My Project #1" gives "MY_PROJECT__1"); create_project sends the
\* generated key exactly when no project_key is given and sends a given
\* project_key unchanged.
C13_ProjectKey ==
    /\ _generate_project_key(ExampleName) = "MY_PROJECT__1"
    /\ ProjectCreationSent =>
          \A i \in CallsOf("create_project") :
             /\ tool_args.project_key = None =>
                   tool_log[i].arg = KeyOf(tool_args.project_name)
             /\ tool_args.project_key # None =>
                   tool_log[i].arg = tool_args.project_key[1]
             /\ tool_result.kind = "return" =>
                   tool_result.projectKey = tool_log[i].arg

C13_Witness ==
    /\ ProjectCreationSent
    /\ tool_args.project_key = None
    /\ tool_args.project_name = ExampleName
    /\ tool_result.kind = "return"
    /\ tool_result.projectKey = "MY_PROJECT__1"


\* get_recipe_settings has returned its result dict.
GotSettings ==
    /\ tool_args.tool = "get_recipe_settings"
    /\ tool_result.kind = "return"

SchemaCalls == CallsOf("compute_schema_updates") \cup CallsOf("apply")

\* C15: in set_visual_recipe_payload every schema-update call comes after
\* the successful save, and when one of them fails the handler still
\* returns success = true with a schema_update_warning field and the saved
\* payload stays on the platform.
C15_SchemaFailureIsWarning ==
    tool_args.tool = "set_visual_recipe_payload" =>
        /\ \A i \in SchemaCalls :
              \E j \in CallsOf("save") : j < i /\ tool_log[j].ok
        /\ (tool_pc = "done" /\ \E i \in SchemaCalls : ~tool_log[i].ok) =>
              /\ tool_result.kind = "return"
              /\ tool_result.success = TRUE
              /\ tool_result.schema_update_warning # None
              /\ last_payload # None =>
                    /\ last_payload = Some(tool_args.payload)
                    /\ dss.str_payload = Dumps(tool_args.payload)

C15_Witness ==
    /\ tool_args.tool = "set_visual_recipe_payload"
    /\ tool_pc = "done"
    /\ \E i \in CallsOf("apply") : ~tool_log[i].ok
    /\ tool_result.kind = "return"
    /\ tool_result.success = TRUE
    /\ tool_result.schema_update_warning = Some("apply failed")
    /\ dss.str_payload = Dumps(tool_args.payload)


\* run_recipe has returned its result dict.
RunReturned ==
    /\ tool_args.tool = "run_recipe"
    /\ tool_result.kind = "return"

\* C19: run_recipe with wait = true returns only when the job has
\* finished, with a finished state as status, and a failed job is reported
\* in the status field, not raised; with wait = false it never waits for
\* the job.  Every result has exactly the fields job_id, project_key,
\* recipe_name and status, and status is "UNKNOWN" when the job's status
\* carries no state.
C19_RunRecipe ==
    tool_args.tool = "run_recipe" =>
        /\ ~tool_args.wait => tool_pc # "waiting"
        /\ (tool_pc = "done" /\ tool_args.wait /\ tool_log # <<>>
              /\ \A i \in 1..Len(tool_log) : tool_log[i].ok) =>
              /\ tool_result.kind = "return"
              /\ dss.job.state \in {Some(f) : f \in FinishedStates}
        /\ RunReturned =>
              /\ DOMAIN tool_result =
                    {"kind", "job_id", "project_key", "recipe_name", "status"}
              /\ tool_result.job_id = dss.job.id
              /\ tool_args.wait =>
                    /\ dss.job.state \in {Some(f) : f \in FinishedStates}
                    /\ tool_result.status = dss.job.state[1]
              /\ tool_pc = "done" /\ dss.job.state = None =>
                    tool_result.status = "UNKNOWN"

C19_Witness ==
    /\ RunReturned
    /\ tool_args.wait
    /\ dss.job.state = Some("FAILED")
    /\ tool_result.status = "FAILED"


\* The remote calls of a caller's invocation in progress.
CallsBy(c) == {i \in 1..Len(auth_log) : auth_log[i].caller = c}
ProbesBy(c) == {i \in CallsBy(c) : auth_log[i].op = "list_connections"}

\* C16: get_auth_info returns the caller's auth info with isAdmin = true
\* exactly when the connection listing succeeded, and with isAdmin = false,
\* no fault raised, when the listing failed with DataikuException.
C16_AdminProbe ==
    \A c \in Callers :
        /\ auth_result[c].kind = "return" =>
              /\ ProbesBy(c) # {}
              /\ auth_result[c].authIdentifier = "user-" \o TokenOf[c]
              /\ auth_result[c].isAdmin <=>
                    \A i \in ProbesBy(c) : auth_log[i].ok
        /\ (auth_pc[c] = "done" /\ ProbesBy(c) # {}
              /\ auth_result[c].kind = "fault") =>
              auth_result[c].exception # "DataikuException"

C16_Witness ==
    /\ auth_result["caller1"].kind = "return"
    /\ auth_result["caller1"].isAdmin = FALSE
    /\ \E i \in ProbesBy("caller1") : ~auth_log[i].ok

\* The request of the caller carries no bearer token.
NoBearerToken(c) == ~auth_header[c].present \/ Len(auth_header[c].words) < 2

\* C17: when the resolver is invoked for a request without a bearer token
\* (no header, or no token after the scheme), the invocation fails with
\* the missing-credential failure, holds no client handle and issues no
\* remote call.
C17_MissingCredential ==
    \A c \in Callers :
        (auth_pc[c] \notin {"idle", "resolve"} /\ NoBearerToken(c)) =>
            /\ auth_pc[c] = "done"
            /\ auth_result[c].kind = "fault"
            /\ auth_result[c].exception \in {"KeyError", "IndexError"}
            /\ auth_client[c] = None
            /\ CallsBy(c) = {}

C17_Witness ==
    /\ auth_pc["caller2"] = "done"
    /\ auth_header["caller2"] = [present |-> TRUE, words |-> <<"Bearer">>]
    /\ auth_result["caller2"] = ToolFault("IndexError")
    /\ CallsBy("caller1") # {}

\* C18: under every interleaving of the callers' invocations, each remote
\* call goes through a handle built from the bearer token of the request
\* of the invocation that issues it.
C18_OwnToken ==
    /\ \A i \in 1..Len(auth_log) :
          /\ ~NoBearerToken(auth_log[i].caller)
          /\ auth_log[i].key = auth_header[auth_log[i].caller].words[2]
          /\ auth_log[i].key = TokenOf[auth_log[i].caller]
    /\ \A c \in Callers :
          auth_client[c] # None => auth_client[c] = Some(TokenOf[c])

C18_Witness ==
    /\ \E i \in CallsBy("caller1") : auth_log[i].op = "get_auth_info"
    /\ \E i \in CallsBy("caller2") : auth_log[i].op = "get_auth_info"
    /\ auth_pc["caller1"] = "is_admin"
    /\ auth_pc["caller2"] = "is_admin"


\* The remote failures that a handler catches.
AbsorbedOps == {"compute_schema_updates", "apply"}
ToolOps == {tool_log[i].op : i \in 1..Len(tool_log)}
AuthOps == {auth_log[i].op : i \in 1..Len(auth_log)}

\* C20: within an invocation each remote SDK call is issued at most once,
\* and a failed call is raised to the caller: it is the last call of the
\* invocation, the result is a fault, and no success result follows a
\* failed mutating call.  Only a failed schema-update call of
\* set_visual_recipe_payload and the failed admin probe of get_auth_info
\* are followed by a returned result.
C20_FailuresAreRaised ==
    /\ \A op \in ToolOps : Cardinality(CallsOf(op)) = 1
    /\ \A op \in AuthOps :
          Cardinality({i \in 1..Len(auth_log) : auth_log[i].op = op}) = 1
    /\ \A op \in Range(calls) : CountOf(op) = 1
    /\ \A i \in 1..Len(tool_log) :
          (~tool_log[i].ok /\ tool_log[i].op \notin AbsorbedOps) =>
              /\ i = Len(tool_log)
              /\ tool_pc = "done"
              /\ tool_result.kind = "fault"
    /\ \A i \in 1..Len(tool_log) :
          (~tool_log[i].ok /\ tool_log[i].op \in AbsorbedOps) =>
              tool_args.tool = "set_visual_recipe_payload"
    /\ \A i \in 1..Len(auth_log) :
          (~auth_log[i].ok /\ auth_log[i].op # "list_connections") =>
              /\ i = Len(auth_log)
              /\ auth_pc[auth_log[i].caller] = "done"
              /\ auth_result[auth_log[i].caller].kind = "fault"
    /\ (tool_args.tool = "create_managed_dataset"
          /\ tool_result.kind = "return") =>
              /\ tool_args.dataset_name \in catalog
              /\ \A i \in CallsOf("create") : tool_log[i].ok
    /\ (pc = "done" /\ CountOf("create_recipe") > 0
          /\ create_request = None) => result.kind = "fault"
    /\ result.kind = "success" => create_request # None

C20_Witness ==
    /\ tool_args.tool = "create_managed_dataset"
    /\ tool_pc = "done"
    /\ \E i \in CallsOf("create") : ~tool_log[i].ok
    /\ tool_result = ToolFault("DataikuException")
    /\ tool_args.dataset_name \notin catalog


(***************************************************************************)
(* Further claims about create_recipe.                                     *)
(***************************************************************************)
\* create_recipe has returned its success dict.
Created == pc = "done" /\ result.kind = "success"

\* C26: when create_recipe succeeds, the request handed to the platform
\* carries the given inputs in order, the given outputs in order each with
\* its append flag (false when absent), the given type and name, and a
\* script exactly when the type is a code type and code is non-empty; the
\* result reports the same inputs and the output names in order.
C26_CreationRequest ==
    Created =>
        /\ create_request # None
        /\ LET sent == create_request[1]
           IN  /\ sent.inputs = request.inputs
               /\ Len(sent.outputs) = Len(request.outputs)
               /\ \A i \in 1..Len(request.outputs) :
                     /\ sent.outputs[i].name = request.outputs[i].name
                     /\ sent.outputs[i].append =
                           (request.outputs[i].append = Some(TRUE))
               /\ sent.recipe_type = request.recipe_type
               /\ sent.name = request.recipe_name
               /\ sent.script # None <=>
                     (request.recipe_type \in CODE_RECIPE_TYPES
                         /\ request.code \notin {None, Some("")})
               /\ sent.script # None => sent.script = request.code
        /\ result.inputs = request.inputs
        /\ result.outputs =
              [i \in 1..Len(request.outputs) |-> request.outputs[i].name]

C26_Witness ==
    /\ Created
    /\ request.recipe_type = "python"
    /\ Len(request.inputs) = 2
    /\ create_request[1].script = Some("print(1)")
    /\ \E i \in 1..Len(request.outputs) : create_request[1].outputs[i].append

\* The names a creation request refers to.
ReferencedDatasets == InputSet \cup OutputSet

\* C28, as stated: under every interleaving with other callers' delete and
\* rename of datasets, the creation call is issued only when every dataset
\* the request names exists in the project at that moment.
C28_Original ==
    [][(pc = "create" /\ pc' = "done") => ReferencedDatasets \subseteq catalog]_vars

\* C30: a request that fails a local shape check is answered with its error
\* result before the authorization header is read: no client is resolved
\* or held, nothing is listed, and the result is determined by the
\* arguments alone.
C30_ValidationBeforeCredentials ==
    (Invoked /\ CreateRecipeValidation(request) # "ok") =>
        /\ ~Issued("get_impersonated_dss_client")
        /\ client = None
        /\ existing_datasets = None
        /\ pc = "done"
        /\ result = ErrorResult(CreateRecipeValidation(request), <<>>)

C30_Witness ==
    /\ pc = "done"
    /\ request.recipe_type = "sync"
    /\ Len(request.inputs) = 2
    /\ calls = <<>>
    /\ result.error = "InputArityViolation"


\* C27: get_dataset_sample takes at most num_rows_requested rows from the
\* iterator, reads no further once that many rows are collected, and
\* returns or raises, however many rows the source can yield, an endless
\* source included.
C27_BoundedRead ==
    /\ [](tool_args.tool = "get_dataset_sample" /\ tool_pc \in {"rows", "return"}
            => /\ tool_local.consumed <= tool_local.num_rows
               /\ tool_local.consumed = Len(tool_local.rows)
               /\ tool_pc = "rows" => Len(tool_local.rows) < tool_local.num_rows)
    /\ (tool_args.tool = "get_dataset_sample" /\ tool_pc # "done")
          ~> (tool_pc = "done")

C27_Witness ==
    /\ Sampled
    /\ dss.endless
    /\ tool_result.num_rows_requested = MAX_SAMPLE_ROWS
    /\ tool_local.consumed = MAX_SAMPLE_ROWS
    /\ tool_result.num_rows_returned = MAX_SAMPLE_ROWS


(***************************************************************************)
(* list_project_jobs, list_project_ml_tasks, list_project_analyses         *)
(* (project.py, lines 383-430).                                            *)
(***************************************************************************)
\* A project's listing holds no more entries than this.
MaxListing == 3

ListingEntries == <<"e1", "e2", "e3", "e4">>

Listings == {SubSeq(ListingEntries, 1, n) : n \in 0..MaxListing}

\* The count argument is any integer.
NumArgs == (0 - 2)..(MaxListing + 1)

\* Python's seq[0:stop]: a stop below zero counts from the end of the list,
\* and the bounds are clipped to the list.
Slice(seq, stop) ==
    LET last == IF stop < 0
                THEN (IF Len(seq) + stop < 0 THEN 0 ELSE Len(seq) + stop)
                ELSE (IF stop > Len(seq) THEN Len(seq) ELSE stop)
    IN  [i \in 1..last |-> seq[i]]

ListingTools ==
    {"list_project_jobs", "list_project_ml_tasks", "list_project_analyses"}

\* The SDK call each tool makes and the listing it reads.
ListingCall(tool) ==
    CASE tool = "list_project_jobs" -> "list_jobs"
      [] tool = "list_project_ml_tasks" -> "list_ml_tasks"
      [] tool = "list_project_analyses" -> "list_analyses"

ListingOf(platform, tool) ==
    CASE tool = "list_project_jobs" -> platform.jobs
      [] tool = "list_project_ml_tasks" -> platform.ml_tasks
      [] tool = "list_project_analyses" -> platform.analyses

\* The client is resolved and the project handle built.
ListingInvoke(tool, header, num) ==
    /\ tool_pc = "idle"
    /\ tool_args' = [tool |-> tool, header |-> header, num |-> num]
    /\ LET c == get_impersonated_dss_client(header)
       IN  IF c.ok
           THEN /\ tool_client' = Some(c.api_key)
                /\ tool_result' = tool_result
                /\ tool_pc' = "list"
           ELSE /\ tool_client' = tool_client
                /\ tool_result' = ToolFault(c.exception)
                /\ tool_pc' = "done"
    /\ UNCHANGED <<tool_local, tool_log, dss>>

\* The listing is read from the platform and sliced.
ListingRead(tool) ==
    /\ tool_pc = "list"
    /\ tool_args.tool = tool
    /\ \E remote_ok \in BOOLEAN :
         /\ tool_log' = Append(tool_log,
                               SdkCall(ListingCall(tool), tool_client, remote_ok))
         /\ tool_result' =
              IF remote_ok
              THEN [kind |-> "return",
                    value |-> Slice(ListingOf(dss, tool), tool_args.num)]
              ELSE ToolFault("DataikuException")
    /\ tool_pc' = "done"
    /\ UNCHANGED <<tool_args, tool_client, tool_local, dss>>

\* Lines 392-393.
list_project_jobs(header, num_jobs) ==
    ListingInvoke("list_project_jobs", header, num_jobs)

\* Line 394.
list_project_jobs_list == ListingRead("list_project_jobs")

\* Lines 412-413.
list_project_ml_tasks(header, num_ml_tasks) ==
    ListingInvoke("list_project_ml_tasks", header, num_ml_tasks)

\* Line 414.
list_project_ml_tasks_list == ListingRead("list_project_ml_tasks")

\* Lines 427-428.
list_project_analyses(header, num_analyses) ==
    ListingInvoke("list_project_analyses", header, num_analyses)

\* Line 429.
list_project_analyses_list == ListingRead("list_project_analyses")

ListingStates ==
    {[DssAtRest EXCEPT !.jobs = j, !.ml_tasks = m, !.analyses = a] :
        j \in Listings, m \in Listings, a \in Listings}

InitList ==
    /\ RecipeIdle
    /\ ToolsIdle
    /\ dss \in ListingStates
    /\ AuthIdle
    /\ SettingsIdle
    /\ ModuleLoaded
    /\ last_payload = None

NextList ==
    \/ /\ tool_pc = "idle"
       /\ \E header \in Headers, num_jobs \in NumArgs :
            list_project_jobs(header, num_jobs)
       /\ UNCHANGED tool_frame
    \/ list_project_jobs_list /\ UNCHANGED tool_frame
    \/ /\ tool_pc = "idle"
       /\ \E header \in Headers, num_ml_tasks \in NumArgs :
            list_project_ml_tasks(header, num_ml_tasks)
       /\ UNCHANGED tool_frame
    \/ list_project_ml_tasks_list /\ UNCHANGED tool_frame
    \/ /\ tool_pc = "idle"
       /\ \E header \in Headers, num_analyses \in NumArgs :
            list_project_analyses(header, num_analyses)
       /\ UNCHANGED tool_frame
    \/ list_project_analyses_list /\ UNCHANGED tool_frame
    \/ ToolReturn /\ UNCHANGED tool_frame

SpecList == InitList /\ [][NextList]_vars

(***************************************************************************)
(* The server process: every handler of the module, one invocation at a    *)
(* time, with the module-level names the handlers read.                    *)
(***************************************************************************)
InitProcess ==
    /\ pc = "idle"
    /\ request = NoRequest
    /\ client = None
    /\ existing_datasets = None
    /\ calls = <<>>
    /\ create_request = None
    /\ result = NoResult
    /\ catalog = {"A", "C"}
    /\ ToolsIdle
    /\ dss \in {[DssAtRest EXCEPT
                 !.recipe_type = t,
                 !.str_payload = IF t \in CODE_RECIPE_TYPES
                                 THEN ScriptText ELSE "{}",
                 !.source_size = MaxSmallRows,
                 !.columns = <<"id", "amount">>,
                 !.jobs = SubSeq(ListingEntries, 1, 2),
                 !.general_settings = [key \in SettingKeys |-> "old"]] :
                   t \in {"sync", "python"}}
    /\ AuthIdle
    /\ SettingsIdle
    /\ ModuleLoaded
    /\ last_payload = None

NextProcess ==
    \/ NextHandlers
    \/ /\ AllIdle
       /\ \E header \in Headers, code \in ScriptArgs :
            set_code_recipe_code(header, code)
       /\ UNCHANGED payload_frame
    \/ set_code_recipe_code_settings /\ UNCHANGED payload_frame
    \/ set_code_recipe_code_save /\ UNCHANGED payload_frame
    \/ /\ AllIdle
       /\ \E header \in Headers, num_jobs \in {0 - 1, 1} :
            list_project_jobs(header, num_jobs)
       /\ UNCHANGED tool_frame
    \/ list_project_jobs_list /\ UNCHANGED tool_frame
    \/ /\ AllIdle
       /\ \E header \in RaceHeaders("caller2"),
             settings_keys \in RaceSettingsKeys("caller2") :
            get_general_settings("caller2", header, settings_keys)
       /\ UNCHANGED settings_frame
    \/ get_general_settings_read("caller2") /\ UNCHANGED settings_frame
    \/ /\ AllIdle
       /\ \E header \in RaceHeaders("caller2"),
             settings \in RaceSettings("caller2") :
            set_general_settings("caller2", header, settings)
       /\ UNCHANGED settings_frame
    \/ set_general_settings_read("caller2") /\ UNCHANGED settings_frame
    \/ set_general_settings_save("caller2") /\ UNCHANGED settings_frame
    \/ SettingsReturn("caller2") /\ UNCHANGED settings_frame

SpecProcess == InitProcess /\ [][NextProcess]_vars

\* A listing tool has returned its list.
Listed ==
    /\ tool_args.tool \in ListingTools
    /\ tool_result.kind = "return"

\* C23, as stated: for every integer count, each listing tool returns the
\* first min(count, total) entries of the listing in listing order, so the
\* result never has more entries than the count.
C23_Original ==
    Listed =>
        LET listing == ListingOf(dss, tool_args.tool)
            k == MinOf(tool_args.num, Len(listing))
        IN  /\ Len(tool_result.value) = k
            /\ \A i \in 1..Len(tool_result.value) :
                  tool_result.value[i] = listing[i]
            /\ Len(tool_result.value) <= tool_args.num


\* The invocation in progress is a setter that the recipe's type rules out.
WrongSetter ==
    \/ /\ tool_args.tool = "set_code_recipe_code"
       /\ dss.recipe_type \notin CODE_RECIPE_TYPES
    \/ /\ tool_args.tool = "set_visual_recipe_payload"
       /\ dss.recipe_type \in CODE_RECIPE_TYPES

\* The invocation in progress is a setter that has read the recipe's
\* settings and has returned or raised.
SetterDecided ==
    /\ tool_args.tool \in {"set_code_recipe_code", "set_visual_recipe_payload"}
    /\ tool_pc = "done"
    /\ \E i \in CallsOf("get_settings") : tool_log[i].ok

\* C24: set_code_recipe_code on a recipe that is not a code recipe, and
\* set_visual_recipe_payload on a code recipe, return an error result, never
\* call save and leave the recipe as it was; on every recipe type the other
\* setter goes on to save, so exactly one of the two accepts.
C24_SettersGuarded ==
    /\ [](WrongSetter => CallsOf("save") = {})
    /\ [](SetterDecided =>
            IF WrongSetter
            THEN /\ tool_result.kind = "return"
                 /\ "error" \in DOMAIN tool_result
            ELSE /\ "error" \notin DOMAIN tool_result
                 /\ CallsOf("save") # {})
    /\ [][WrongSetter => dss' = dss]_vars

C24_Witness ==
    /\ SetterDecided
    /\ tool_args.tool = "set_code_recipe_code"
    /\ dss.recipe_type = "join"
    /\ "error" \in DOMAIN tool_result
    /\ CallsOf("save") = {}


\* The set_general_settings invocation of caller c has returned the success
\* message.
SettingsSaved(c) ==
    /\ settings_args[c].tool = "set_general_settings"
    /\ auth_pc[c] = "done"
    /\ auth_result[c].kind = "return"
    /\ "message" \in DOMAIN auth_result[c]

\* C22: after a set_general_settings(settings) call that returns the
\* success message, every key of settings holds the supplied value in the
\* instance's general settings, every other key holds the value it had
\* before the call (a key absent before is absent after), and updatedKeys
\* is the keys of settings.
C22_SettingsFrame ==
    \A c \in Callers :
        SettingsSaved(c) =>
            LET settings == settings_args[c].settings
                before == settings_args[c].before
                now == dss.general_settings
            IN  /\ auth_result[c].message = "General settings updated successfully"
                /\ auth_result[c].updatedKeys = DOMAIN settings
                /\ DOMAIN now = DOMAIN before \cup DOMAIN settings
                /\ \A key \in DOMAIN settings : now[key] = settings[key]
                /\ \A key \in DOMAIN now \ DOMAIN settings :
                      now[key] = before[key]

C22_Witness ==
    /\ SettingsSaved("caller1")
    /\ settings_args["caller1"].settings = [key \in {"sparkSettings"} |-> "on"]
    /\ "sparkSettings" \notin DOMAIN settings_args["caller1"].before
    /\ dss.general_settings =
         [key \in SettingKeys |-> IF key = "sparkSettings" THEN "on" ELSE "old"]

\* The keys the invocation of caller c names that are outside the list.
RequestedInvalid(c) ==
    IF settings_args[c].tool = "set_general_settings"
    THEN {key \in DOMAIN settings_args[c].settings :
             key \notin Range(ALLOWED_GENERAL_SETTINGS_KEYS)}
    ELSE IF settings_args[c].tool = "get_general_settings"
            /\ settings_args[c].settings_keys # None
    THEN {key \in Range(settings_args[c].settings_keys[1]) :
             key \notin Range(ALLOWED_GENERAL_SETTINGS_KEYS)}
    ELSE {}

\* The result of caller c is the allow-list error: it names keys, and holds
\* no setting value.
IsInvalidKeysError(c) ==
    /\ auth_result[c].kind = "return"
    /\ DOMAIN auth_result[c] = {"kind", "error", "invalid_keys", "allowed_keys"}
    /\ auth_result[c].invalid_keys = RequestedInvalid(c)

\* The remote calls caller c has issued in its invocation.
LoggedBy(c, op) ==
    {i \in DOMAIN auth_log : auth_log[i].caller = c /\ auth_log[i].op = op}

\* C25: get_general_settings never returns a key outside the allow-list,
\* and with a requested key outside the list it returns the error result,
\* which holds no setting value (when the client or the fetch fails the
\* failure is raised, and holds no value either); set_general_settings with
\* a key outside the list returns the error result, issues no remote call,
\* and leaves every setting of the instance as it was.
C25_AllowList ==
    \A c \in Callers :
        /\ (settings_args[c].tool = "get_general_settings"
              /\ auth_result[c].kind = "return"
              /\ "value" \in DOMAIN auth_result[c])
               => /\ DOMAIN auth_result[c].value
                        \subseteq Range(ALLOWED_GENERAL_SETTINGS_KEYS)
                  /\ RequestedInvalid(c) = {}
        /\ (settings_args[c].tool = "get_general_settings"
              /\ auth_pc[c] = "done" /\ RequestedInvalid(c) # {})
               => /\ auth_result[c].kind \in {"return", "fault"}
                  /\ auth_result[c].kind = "return" => IsInvalidKeysError(c)
                  /\ (\E i \in LoggedBy(c, "get_general_settings") :
                         auth_log[i].ok) => IsInvalidKeysError(c)
        /\ (settings_args[c].tool = "set_general_settings"
              /\ RequestedInvalid(c) # {})
               => /\ auth_pc[c] = "done"
                  /\ auth_client[c] # None => IsInvalidKeysError(c)
                  /\ auth_client[c] = None => auth_result[c].kind = "fault"
                  /\ LoggedBy(c, "save") = {}
                  /\ LoggedBy(c, "get_general_settings") = {}
                  /\ dss.general_settings = settings_args[c].before

C25_Witness ==
    /\ settings_args["caller2"].tool = "get_general_settings"
    /\ settings_args["caller2"].settings_keys = Some(<<"security", "ldapSettings">>)
    /\ IsInvalidKeysError("caller2")
    /\ auth_result["caller2"].invalid_keys = {"ldapSettings"}
    /\ "ldapSettings" \in DOMAIN dss.general_settings

\* C29, as stated: when two set_general_settings invocations that set
\* disjoint allowed keys have both returned success, the instance's general
\* settings hold the values of both, under any interleaving of their steps.
C29_Original ==
    (/\ SettingsSaved("caller1")
     /\ SettingsSaved("caller2")
     /\ DOMAIN settings_args["caller1"].settings
           \cap DOMAIN settings_args["caller2"].settings = {})
        => \A c \in Callers :
              \A key \in DOMAIN settings_args[c].settings :
                  /\ key \in DOMAIN dss.general_settings
                  /\ dss.general_settings[key] = settings_args[c].settings[key]


\* The key a handle built from a request's header carries.
KeyOfHeader(header) == Some(get_impersonated_dss_client(header).api_key)

\* C21: whatever invocations have run, successful or failing, the
\* module-level names (the recipe-type class sets, the sample-row limits,
\* the allowed general-settings keys) have the values the import gave them;
\* no handle and no local is kept when no invocation is in progress, and a
\* handle held by an invocation is the one built from that invocation's own
\* request, which every remote call of the invocation goes through.
C21_ProcessState ==
    /\ module_state = ModuleNames
    /\ pc = "idle" => client = None /\ existing_datasets = None
    /\ tool_pc = "idle" =>
          tool_client = None /\ tool_local = NoLocal /\ tool_log = <<>>
    /\ tool_client # None => tool_client = KeyOfHeader(tool_args.header)
    /\ \A i \in DOMAIN tool_log : Some(tool_log[i].key) = tool_client
    /\ \A c \in Callers :
          /\ auth_pc[c] = "idle" =>
                auth_client[c] = None /\ general_settings[c] = None
          /\ auth_client[c] # None =>
                auth_client[c] = KeyOfHeader(auth_header[c])

C21_Witness ==
    /\ dss.general_settings["security"] = "on"
    /\ catalog # {"A", "C"}
    /\ tool_args.tool = "get_dataset_sample"
    /\ tool_result.kind = "return"
    /\ tool_client = Some("key1")
    /\ module_state = ModuleNames

=============================================================================
